---- MODULE Spec2Model ----
(***************************************************************************)
(* A model of mdchat (sarveshbhatnagar/mdchat): the chunk splitter and the *)
(* summarize command of src/src/commands/summarize.js, and the edit        *)
(* command of src/src/commands/edit.js.                                    *)
(*                                                                         *)
(* A text is a sequence of one-character strings.  A file, stdout and a    *)
(* prompt are sequences of lines or of parts, as the code builds them.     *)
(***************************************************************************)
EXTENDS Integers, Sequences, FiniteSets, TLC

\* ------------------------------------------------------------------ bounds

\* Longest text handed to the splitter.
MaxLen == 6
\* Largest maxChunkSize handed to the splitter.
MaxChunk == 4

\* ------------------------------------------------------------ text helpers

\* The characters of the modelled texts: a letter, a sentence terminator,
\* a space and a line break.
Char == {"a", ".", " ", "\n"}

\* JavaScript's \s restricted to Char.
WhiteSpace == {" ", "\n"}

\* The class [.!?] of the sentence regex.
Terminators == {".", "!", "?"}

Texts(n) == UNION {[1..k -> Char] : k \in 0..n}

\* Length of the maximal run of whitespace of s that starts at index q.
RECURSIVE WsRun(_, _)
WsRun(s, q) ==
  IF q <= Len(s) /\ s[q] \in WhiteSpace THEN 1 + WsRun(s, q + 1) ELSE 0

\* String.prototype.trim
trim(s) ==
  LET idx == {i \in 1..Len(s) : s[i] \notin WhiteSpace}
  IN  IF idx = {} THEN <<>>
      ELSE SubSeq(s, CHOOSE i \in idx : \A j \in idx : i <= j,
                     CHOOSE i \in idx : \A j \in idx : i >= j)

\* Array.prototype.join(sep) over texts.
RECURSIVE join(_, _)
join(parts, sep) ==
  IF Len(parts) = 0 THEN <<>>
  ELSE IF Len(parts) = 1 THEN parts[1]
  ELSE parts[1] \o sep \o join(Tail(parts), sep)

\* Length of the match of a separator regex at index q of s, 0 for no match.
\*   "sentence"   /(?<=[.!?])\s+/   whitespace run right after a terminator
\*   "paragraph"  /\n\s*\n/         a line break, whitespace, a line break
\*                                  (\s* is greedy: the match ends at the last
\*                                  line break of the whitespace run)
\*   "word"       /\s+/             whitespace run
MatchLen(kind, s, q) ==
  CASE kind = "sentence" ->
         IF q > 1 /\ s[q - 1] \in Terminators THEN WsRun(s, q) ELSE 0
    [] kind = "paragraph" ->
         IF s[q] # "\n" THEN 0
         ELSE LET run == WsRun(s, q + 1)
                  nl  == {j \in (q + 1)..(q + run) : s[j] = "\n"}
              IN  IF nl = {} THEN 0
                  ELSE (CHOOSE j \in nl : \A k \in nl : j >= k) - q + 1
    [] kind = "word" -> WsRun(s, q)

\* String.prototype.split(regex) for a regex that matches no empty string:
\* p is the start of the current piece, q the position scanned.
RECURSIVE SplitFrom(_, _, _, _)
SplitFrom(kind, s, p, q) ==
  IF q > Len(s) THEN <<SubSeq(s, p, Len(s))>>
  ELSE LET m == MatchLen(kind, s, q)
       IN  IF m = 0 THEN SplitFrom(kind, s, p, q + 1)
           ELSE <<SubSeq(s, p, q - 1)>> \o SplitFrom(kind, s, q + m, q + m)

split(s, kind) == SplitFrom(kind, s, 1, 1)

\* Array.prototype.filter(chunk => chunk.length > 0)
RECURSIVE filterNonEmpty(_)
filterNonEmpty(cs) ==
  IF Len(cs) = 0 THEN <<>>
  ELSE (IF Len(cs[1]) > 0 THEN <<cs[1]>> ELSE <<>>) \o filterNonEmpty(Tail(cs))

\* ------------------------------------------------------------ the splitter

\* After the word loop: if (currentChunk.length > 0) chunks.push(currentChunk.trim())
pushLastWords(chunks, currentChunk) ==
  IF Len(currentChunk) > 0 THEN Append(chunks, trim(currentChunk)) ELSE chunks

\* The word loop of splitLongSentence: words[i..] still to place, chunks
\* pushed so far, currentChunk being packed.
RECURSIVE packWords(_, _, _, _, _)
packWords(words, i, chunks, currentChunk, maxSize) ==
  IF i > Len(words) THEN pushLastWords(chunks, currentChunk)
  ELSE LET word == words[i] IN
    IF Len(currentChunk) + Len(word) + 1 > maxSize THEN
      IF Len(currentChunk) > 0
      THEN packWords(words, i + 1, Append(chunks, trim(currentChunk)), word, maxSize)
      ELSE packWords(words, i + 1, Append(chunks, word), currentChunk, maxSize)
    ELSE packWords(words, i + 1, chunks,
                   currentChunk \o (IF Len(currentChunk) > 0 THEN <<" ">> ELSE <<>>) \o word,
                   maxSize)

RECURSIVE splitLongSentence(_, _)
RECURSIVE splitParagraphs(_, _, _)
\* chunks.push(...splitLongSentence(paragraph, maxSize)) for paragraphs[i..]
splitParagraphs(paragraphs, i, maxSize) ==
  IF i > Len(paragraphs) THEN <<>>
  ELSE splitLongSentence(paragraphs[i], maxSize)
         \o splitParagraphs(paragraphs, i + 1, maxSize)

splitLongSentence(sentence, maxSize) ==
  IF Len(sentence) <= maxSize THEN <<sentence>>
  ELSE LET paragraphs == split(sentence, "paragraph") IN
    IF Len(paragraphs) > 1 THEN splitParagraphs(paragraphs, 1, maxSize)
    ELSE packWords(split(sentence, "word"), 1, <<>>, <<>>, maxSize)

\* The test of the sentence loop: would adding the sentence exceed the limit.
exceedsLimit(currentChunk, sentence, maxChunkSize) ==
  Len(currentChunk) + Len(sentence) > maxChunkSize

\* A slip of pushLast: the chunk still being packed when the loop ends is
\* forgotten.
pushLast_Forgotten(chunks, currentChunk) == chunks

\* After the sentence loop: if (currentChunk.length > 0) chunks.push(currentChunk.trim())
pushLast(chunks, currentChunk) ==
  IF Len(currentChunk) > 0 THEN Append(chunks, trim(currentChunk)) ELSE chunks

\* The sentence loop of splitIntoChunks.
RECURSIVE packSentences(_, _, _, _, _)
packSentences(sentences, i, chunks, currentChunk, maxChunkSize) ==
  IF i > Len(sentences) THEN pushLast(chunks, currentChunk)
  ELSE LET sentence == sentences[i] IN
    IF exceedsLimit(currentChunk, sentence, maxChunkSize) THEN
      IF Len(currentChunk) > 0
      THEN packSentences(sentences, i + 1, Append(chunks, trim(currentChunk)),
                         sentence, maxChunkSize)
      ELSE packSentences(sentences, i + 1,
                         chunks \o splitLongSentence(sentence, maxChunkSize),
                         currentChunk, maxChunkSize)
    ELSE packSentences(sentences, i + 1, chunks,
                       currentChunk \o (IF Len(currentChunk) > 0 THEN <<" ">> ELSE <<>>)
                                    \o sentence,
                       maxChunkSize)

splitIntoChunks(content, maxChunkSize) ==
  filterNonEmpty(packSentences(split(content, "sentence"), 1, <<>>, <<>>, maxChunkSize))

\* ------------------------------------------------- the splitter on its own

VARIABLES
  text,          \* the content handed to splitIntoChunks
  maxChunkSize,  \* its maxChunkSize
  chunks,        \* the chunks returned
  splitPc        \* "call" before the call, "done" after it, "idle" when unused

splitVars == <<text, maxChunkSize, chunks, splitPc>>

\* ------------------------------------------------- the summarize command

VARIABLES
  input,           \* the <input> argument: [arg: a text, meantAs: what the user meant]
  options,         \* [output: -o given, combine: --combine given]
  statResult,      \* what fs.statSync(input) gave: "file", "dir", "other", "absent"
  matchedFiles,    \* what glob gave resolveInputFiles (allFiles, matchedFiles)
  files,           \* the list resolveInputFiles returned
  mode,            \* "single" (processSingleInput) or "multi" (processMultipleFiles)
  fileIdx,         \* processMultipleFiles' i, 1-based
  fileEnv,         \* per file taken up by the loop: the size and read result it met
  content,         \* the content being summarized
  docChunks,       \* summarizeInChunks' chunks
  chunkIdx,        \* summarizeInChunks' i, 1-based
  chunkSummaries,  \* summarizeInChunks' chunkSummaries
  summaries,       \* processMultipleFiles' summaries
  processedFiles,  \* processMultipleFiles' processedFiles
  calls,           \* every generation call issued, in order, with its result
  delays,          \* every setTimeout wait, in order
  stdout,          \* the lines printed
  outFile,         \* the lines appended to the -o file
  exitCode,        \* -1 while the command runs, then the exit status
  splitCalls,      \* how many times splitIntoChunks was called
  pc               \* where the command is

sumVars == <<input, options, statResult, matchedFiles, files, mode, fileIdx, fileEnv, content,
             docChunks, chunkIdx, chunkSummaries, summaries, processedFiles,
             calls, delays, stdout, outFile, exitCode, splitCalls, pc>>

\* ------------------------------------------------------ the edit command

VARIABLES
  target,           \* the file at filePath: [exists, lines]
  editOptions,      \* [section, action, replace, output, instructions]
  originalContent,  \* edit's originalContent, as lines
  editCalls,        \* every generation call edit issued, with its result
  backups,          \* the backup copies made, in order: the lines of each
  editStdout,       \* the lines edit printed
  editOutFile,      \* the lines edit appended to the -o file
  editExit,         \* -1 while edit runs, then the exit status
  editPc            \* where edit is

editVars == <<target, editOptions, originalContent, editCalls, backups,
              editStdout, editOutFile, editExit, editPc>>

\* ----------------------------------- the settings of a generation call

VARIABLES
  cliOptions,   \* the options --provider, --model, --api-key, --base-url ("": not given)
  configFile,   \* what loadConfig reads from ~/.mdchatrc ("": key not stored)
  processEnv,   \* process.env: OPENAI_API_KEY and ANTHROPIC_API_KEY ("": not set)
  modelUses     \* per generation call of the process, in order: what it used

llmVars == <<cliOptions, configFile, processEnv, modelUses>>

\* ------------------------------------------------------ the insert command

VARIABLES
  insTarget,       \* the file at filePath: whether it exists, and its lines
  insOptions,      \* the options --preview and -o of the run
  insBlocks,       \* insertBlocks, as findInsertBlocks returned them
  insIdx,          \* the loop index i of insert, counted from 1
  updatedContent,  \* updatedContent, as lines
  insCalls,        \* the generation calls issued, in order
  insBackup,       \* the file at `${filePath}.backup`, <<>> while there is none
  insOutFile,      \* the file at options.output, <<>> while there is none
  insStdout,       \* the lines written to the console
  insExit,         \* the exit status, -1 while running
  insPc            \* the point insert has reached

insVars == <<insTarget, insOptions, insBlocks, insIdx, updatedContent, insCalls,
             insBackup, insOutFile, insStdout, insExit, insPc>>

\* ---------------------------------------------------------- the ask command

VARIABLES
  question,     \* the question asked
  askOptions,   \* the options stream, noStream and output of the run
  askStdout,    \* what was written to stdout and the console, in order
  askOutFile,   \* what was appended to the -o file
  fullText,     \* fullText of askLLMStream: the deltas received so far
  askStderr,    \* what console.error wrote
  askExit,      \* the exit status, -1 while running
  askPc         \* the point ask has reached

askVars == <<question, askOptions, askStdout, askOutFile, fullText, askStderr, askExit, askPc>>

\* ------------------------------------------------------- the config command

VARIABLES
  rcFile,       \* ~/.mdchatrc: whether it exists, and the JSON text in it
  cfgArgs,      \* cmd, key and value of the last config command run
  cfgReturned,  \* what that command returned
  cfgStdout,    \* what that command printed
  cfgExit,      \* its exit status
  cfgRuns       \* the number of commands run

cfgVars == <<rcFile, cfgArgs, cfgReturned, cfgStdout, cfgExit, cfgRuns>>

vars == <<splitVars, sumVars, editVars, llmVars, insVars, askVars, cfgVars>>

\* The variables of the insert command, unused.
InsIdle ==
  /\ insTarget = [exists |-> FALSE, lines |-> <<>>]
  /\ insOptions = [preview |-> FALSE, output |-> FALSE]
  /\ insBlocks = <<>>
  /\ insIdx = 0
  /\ updatedContent = <<>>
  /\ insCalls = <<>>
  /\ insBackup = <<>>
  /\ insOutFile = <<>>
  /\ insStdout = <<>>
  /\ insExit = -1
  /\ insPc = "idle"

\* The variables of the ask command, unused.
AskIdle ==
  /\ question = ""
  /\ askOptions = [stream |-> "undefined", noStream |-> FALSE, output |-> FALSE]
  /\ askStdout = <<>>
  /\ askOutFile = <<>>
  /\ fullText = <<>>
  /\ askStderr = <<>>
  /\ askExit = -1
  /\ askPc = "idle"

\* The variables of the config command, unused.
CfgIdle ==
  /\ rcFile = [exists |-> FALSE, json |-> <<>>]
  /\ cfgArgs = [cmd |-> "", key |-> "", value |-> ""]
  /\ cfgReturned = [value |-> "undefined", config |-> <<>>]
  /\ cfgStdout = <<>>
  /\ cfgExit = -1
  /\ cfgRuns = 0

\* The variables of the commands modelled further down, unused.
OthersIdle == InsIdle /\ AskIdle /\ CfgIdle

\* The variables of the settings, unused.
LlmIdle ==
  /\ cliOptions = [provider |-> "", model |-> "", apiKey |-> "", baseUrl |-> ""]
  /\ configFile = [provider |-> "", model |-> "", apiKey |-> "", baseUrl |-> ""]
  /\ processEnv = [OPENAI_API_KEY |-> "", ANTHROPIC_API_KEY |-> ""]
  /\ modelUses = <<>>

\* The variables of the edit command, unused.
EditIdle ==
  /\ target = [exists |-> FALSE, lines |-> <<>>]
  /\ editOptions = [section |-> <<>>, action |-> "", replace |-> FALSE,
                    output |-> FALSE, instructions |-> FALSE]
  /\ originalContent = <<>>
  /\ editCalls = <<>>
  /\ backups = <<>>
  /\ editStdout = <<>>
  /\ editOutFile = <<>>
  /\ editExit = -1
  /\ editPc = "idle"

\* The variables of the summarize command, unused.
SumIdle ==
  /\ input = [arg |-> <<>>, meantAs |-> "text"]
  /\ options = [output |-> FALSE, combine |-> FALSE]
  /\ statResult = "absent"
  /\ matchedFiles = <<>>
  /\ files = <<>>
  /\ mode = "none"
  /\ fileIdx = 0
  /\ fileEnv = <<>>
  /\ content = <<>>
  /\ docChunks = <<>>
  /\ chunkIdx = 0
  /\ chunkSummaries = <<>>
  /\ summaries = <<>>
  /\ processedFiles = <<>>
  /\ calls = <<>>
  /\ delays = <<>>
  /\ stdout = <<>>
  /\ outFile = <<>>
  /\ exitCode = -1
  /\ splitCalls = 0
  /\ pc = "idle"

\* The variables of the splitter on its own, unused.
SplitIdle ==
  /\ text = <<>>
  /\ maxChunkSize = 1
  /\ chunks = <<>>
  /\ splitPc = "idle"

InitSplit ==
  /\ OthersIdle
  /\ text \in Texts(MaxLen)
  /\ maxChunkSize \in 1..MaxChunk
  /\ chunks = <<>>
  /\ splitPc = "call"
  /\ SumIdle
  /\ EditIdle
  /\ LlmIdle

SplitIntoChunks ==
  /\ splitPc = "call"
  /\ chunks' = splitIntoChunks(text, maxChunkSize)
  /\ splitPc' = "done"
  /\ UNCHANGED <<text, maxChunkSize, sumVars, editVars, llmVars, insVars, askVars, cfgVars>>

NextSplit == SplitIntoChunks

SpecSplit == InitSplit /\ [][NextSplit]_vars

\* ------------------------------------------ summarize: constants, helpers

\* Most files a directory scan or a glob pattern lists.
MaxFiles == 3

\* Maximum tokens to send in one call.  The code's 15000, scaled down so
\* that texts of a few characters fall on both sides of it.
MAX_INPUT_TOKENS == 1

MAX_CHUNK_SIZE == MAX_INPUT_TOKENS * 4

\* processMultipleFiles combines when files.length exceeds this.  The code's
\* 10, scaled down so that lists of MaxFiles files fall on both sides of it.
CombineThreshold == 2

\* processMultipleFiles skips a file of more than this many MB.
BatchSizeLimitMB == 50

\* A slip of estimateTokens: the quotient is rounded down.
estimateTokens_Floor(t) == Len(t) \div 4

\* Math.ceil(text.length / 4)
estimateTokens(t) == (Len(t) + 3) \div 4

TEXT_EXTENSIONS ==
  {".md", ".txt", ".js", ".ts", ".jsx", ".tsx", ".py", ".java", ".cpp", ".c",
   ".h", ".css", ".html", ".xml", ".json", ".yaml", ".yml", ".sh", ".bash",
   ".zsh", ".fish", ".ps1", ".bat", ".cmd", ".sql", ".r", ".php", ".rb", ".go",
   ".rs", ".swift", ".kt", ".scala", ".clj", ".hs", ".elm", ".vue", ".svelte",
   ".tex", ".org", ".rst", ".adoc"}

\* The extensions of the files a scan may list.
ListingExts == {".md", ".MD", ".png"}

\* A slip of toLowerCase: the extension is compared as it is written.
toLowerCase_AsWritten(e) == e

\* String.prototype.toLowerCase on the extensions modelled.
toLowerCase(e) == IF e = ".MD" THEN ".md" ELSE e

\* What glob may return: up to MaxFiles files, file k with its extension,
\* the eligible extension of a listing written in one case throughout.
Listings ==
  UNION {[1..n -> [name : {"f"}, ext : ListingExts \ {skip}]] :
           n \in 0..MaxFiles, skip \in {".md", ".MD"}}

\* The path of the k-th file listed, without its extension (kept in the
\* listing): "f1", "f2", ...
PathOf(matched, k) == matched[k].name \o ToString(k)

\* matchedFiles.filter(file => TEXT_EXTENSIONS.includes(path.extname(file).toLowerCase()))
RECURSIVE filterTextFiles(_, _)
filterTextFiles(matched, k) ==
  IF k > Len(matched) THEN <<>>
  ELSE (IF toLowerCase(matched[k].ext) \in TEXT_EXTENSIONS
        THEN <<PathOf(matched, k)>> ELSE <<>>) \o filterTextFiles(matched, k + 1)

\* null in the list resolveInputFiles returns: direct text.
NullPath == "<null>"
\* The input argument used as a path.
InputPath == "<input>"

\* input.includes('*') || input.includes('?') || input.includes('[')
includesGlobChar(arg) == \E k \in 1..Len(arg) : arg[k] \in {"*", "?", "["}

\* resolveInputFiles, given what statSync and glob give.
resolveInputFiles(arg, st, matched) ==
  IF st = "dir" THEN filterTextFiles(matched, 1)
  ELSE IF st = "file" THEN <<InputPath>>
  ELSE IF st = "other" THEN <<>>
  ELSE \* statSync threw
       IF includesGlobChar(arg) THEN filterTextFiles(matched, 1)
       ELSE <<NullPath>>

\* The texts a file may hold: within one call's budget; exactly at the
\* budget; two chunks; three chunks; whitespace only, beyond the budget.
DocTexts ==
  { <<"a", ".">>,
    <<"a", ".", " ", "a">>,
    <<"a", ".", " ", "a", ".", " ", "a">>,
    <<"a", "a", ".", " ", "a", "a", ".", " ", "a", "a", ".">>,
    <<" ", " ", " ", " ", " ">> }

\* The texts a file of a multi-file run may hold.
BatchTexts ==
  { <<"a", ".">>,
    <<"a", ".", " ", "a", ".", " ", "a">> }

\* The <input> arguments: a path; a short text that holds a '?'; a pattern;
\* a text beyond one call's budget.
Inputs ==
  { [arg |-> <<"a", ".", "a">>, meantAs |-> "path"],
    [arg |-> <<"a", "?">>, meantAs |-> "text"],
    [arg |-> <<"*", ".", "a">>, meantAs |-> "pattern"],
    [arg |-> <<"a", ".", " ", "a", ".", " ", "a">>, meantAs |-> "text"] }

StatResults == {"file", "dir", "other", "absent"}

\* File sizes in MB that statSync may report.
SizesMB == {50, 51}

\* The text a generation call returns: an opaque text, one per call.
GenText(k) == "gen" \o ToString(k)

\* `<!-- AI:summary -->\n${summary}\n<!-- /AI -->\n` as lines.
SummaryBlock(summary) == <<"<!-- AI:summary -->", summary, "<!-- /AI -->">>

\* A generation call: the prompt's kind and what it interpolates, the file
\* being processed when it was issued (0 in a single run), and its result.
Call(kind, filename, part, of, body, parts) ==
  [kind |-> kind, filename |-> filename, part |-> part, of |-> of,
   content |-> body, parts |-> parts, file |-> fileIdx,
   status |-> "pending", text |-> ""]

\* A slip of Returned: the call is not awaited, the run goes on while it is
\* still outstanding.
Returned_NotAwaited(ok) == calls

\* The last call with its result filled in.
Returned(ok) ==
  [calls EXCEPT ![Len(calls)] =
     [@ EXCEPT !.status = IF ok THEN "ok" ELSE "failed",
               !.text = IF ok THEN GenText(Len(calls)) ELSE ""]]

\* path.basename(file), or "text" for direct text.
FileNameOf(file) == IF file = NullPath THEN "text" ELSE file

\* ------------------------------------------------- summarize: the actions

Init ==
  /\ OthersIdle
  /\ SplitIdle
  /\ EditIdle
  /\ LlmIdle
  /\ input \in Inputs
  /\ options \in [output : BOOLEAN, combine : BOOLEAN]
  /\ statResult = "absent"
  /\ matchedFiles = <<>>
  /\ files = <<>>
  /\ mode = "none"
  /\ fileIdx = 0
  /\ fileEnv = <<>>
  /\ content = <<>>
  /\ docChunks = <<>>
  /\ chunkIdx = 0
  /\ chunkSummaries = <<>>
  /\ summaries = <<>>
  /\ processedFiles = <<>>
  /\ calls = <<>>
  /\ delays = <<>>
  /\ stdout = <<>>
  /\ outFile = <<>>
  /\ exitCode = -1
  /\ splitCalls = 0
  /\ pc = "resolve"

\* What readFile may give: a text among ts, or an error.
ReadResults(ts) ==
  {[ok |-> TRUE, content |-> c] : c \in ts} \cup {[ok |-> FALSE, content |-> <<>>]}

\* A slip of Fail: the error is printed and the command ends normally.
Fail_ExitZero ==
  /\ stdout' = Append(stdout, "Error")
  /\ exitCode' = 0
  /\ pc' = "done"

\* summarize's catch: console.error, process.exit(1).
Fail ==
  /\ stdout' = Append(stdout, "Error")
  /\ exitCode' = 1
  /\ pc' = "done"

\* A slip of fitsOneCall: a content of exactly MAX_INPUT_TOKENS is chunked.
fitsOneCall_Strict(contentTokens) == contentTokens < MAX_INPUT_TOKENS

\* contentTokens <= MAX_INPUT_TOKENS
fitsOneCall(contentTokens) == contentTokens <= MAX_INPUT_TOKENS

\* A slip of push: the entry is put at the front of the list (unshift).
push_Unshift(list, entry) == <<entry>> \o list

\* Array.prototype.push, as chunkSummaries.push, summaries.push and
\* processedFiles.push use it: the entry becomes the last one.
push(list, entry) == Append(list, entry)

\* A slip of partLabel: the part is numbered from 0.
partLabel_FromZero(i, chunkSummary) == [part |-> i - 1, summary |-> chunkSummary]

\* `**Part ${i + 1}:**\n${chunkSummary}`, for the i-th chunk counted from 1.
partLabel(i, chunkSummary) == [part |-> i, summary |-> chunkSummary]

\* The choice between summarizeSingleChunk and summarizeInChunks, up to the
\* first generation call either issues.
BeginSummarize(c, filename) ==
  /\ content' = c
  /\ IF fitsOneCall(estimateTokens(c))
     THEN /\ calls' = Append(calls, Call("single", "", 0, 0, c, <<>>))
          /\ pc' = "askSingle"
          /\ UNCHANGED <<docChunks, chunkIdx, chunkSummaries, splitCalls>>
     ELSE LET cs == splitIntoChunks(c, MAX_CHUNK_SIZE) IN
          /\ docChunks' = cs
          /\ splitCalls' = splitCalls + 1
          /\ chunkSummaries' = <<>>
          /\ chunkIdx' = 1
          /\ IF Len(cs) > 0
             THEN /\ calls' = Append(calls, Call("chunk", filename, 1, Len(cs), cs[1], <<>>))
                  /\ pc' = "askChunk"
             ELSE /\ calls' = Append(calls, Call("final", filename, 0, 0, <<>>, <<>>))
                  /\ pc' = "askFinal"

\* A slip of NoFilesFound: an empty list is reported as an error.
NoFilesFound_AsError ==
  /\ stdout' = Append(stdout, "No files found matching the input criteria.")
  /\ exitCode' = 1
  /\ pc' = "done"

\* summarize's return on an empty list: a message, and a normal return.
NoFilesFound ==
  /\ stdout' = Append(stdout, "No files found matching the input criteria.")
  /\ exitCode' = 0
  /\ pc' = "done"

\* summarize up to its dispatch, with resolveInputFiles.
Resolve ==
  /\ pc = "resolve"
  /\ \E st \in StatResults, matched \in Listings :
       \* a text or a pattern is taken not to name an existing file
       /\ st # "absent" => input.meantAs = "path"
       \* glob is called for a directory and for a pattern only
       /\ matched # <<>> => (st = "dir" \/ (st = "absent" /\ includesGlobChar(input.arg)))
       /\ LET fl == resolveInputFiles(input.arg, st, matched) IN
          /\ statResult' = st
          /\ matchedFiles' = matched
          /\ files' = fl
          /\ IF Len(fl) = 0
             THEN /\ NoFilesFound
                  /\ UNCHANGED <<mode, fileIdx>>
             ELSE IF Len(fl) = 1
             THEN /\ mode' = "single"
                  /\ pc' = "processSingleInput"
                  /\ UNCHANGED <<stdout, exitCode, fileIdx>>
             ELSE /\ mode' = "multi"
                  /\ fileIdx' = 1
                  /\ pc' = "fileLoop"
                  /\ UNCHANGED <<stdout, exitCode>>
  /\ UNCHANGED <<splitVars, editVars, llmVars, insVars, askVars, cfgVars, input, options, fileEnv, content, docChunks, chunkIdx,
                 chunkSummaries, summaries, processedFiles, calls, delays, outFile,
                 splitCalls>>

\* processSingleInput up to the first generation call.
ProcessSingleInput ==
  /\ pc = "processSingleInput"
  /\ IF files[1] # NullPath
     THEN \E size \in SizesMB, r \in ReadResults(DocTexts) :
            IF r.ok
            THEN /\ fileEnv' = Append(fileEnv, [size |-> size, read |-> "ok"])
                 /\ BeginSummarize(r.content, FileNameOf(files[1]))
                 /\ UNCHANGED <<stdout, exitCode>>
            ELSE /\ fileEnv' = Append(fileEnv, [size |-> size, read |-> "failed"])
                 /\ Fail
                 /\ UNCHANGED <<content, calls, docChunks, chunkIdx, chunkSummaries,
                                splitCalls>>
     ELSE /\ BeginSummarize(input.arg, FileNameOf(NullPath))
          /\ UNCHANGED <<stdout, exitCode, fileEnv>>
  /\ UNCHANGED <<splitVars, editVars, llmVars, insVars, askVars, cfgVars, input, options, statResult, matchedFiles, files, mode, fileIdx,
                 summaries, processedFiles, delays, outFile>>

\* One turn of processMultipleFiles' loop up to the first generation call:
\* the size check, the read, the choice of path.
ProcessFile ==
  /\ pc = "fileLoop"
  /\ fileIdx <= Len(files)
  /\ \E size \in SizesMB, r \in ReadResults(BatchTexts) :
       IF size > BatchSizeLimitMB
       THEN /\ ~r.ok
            /\ fileEnv' = Append(fileEnv, [size |-> size, read |-> "none"])
            /\ stdout' = Append(stdout, "Skipping " \o FileNameOf(files[fileIdx]))
            /\ fileIdx' = fileIdx + 1
            /\ UNCHANGED <<pc, content, calls, docChunks, chunkIdx, chunkSummaries,
                           splitCalls>>
       ELSE IF ~r.ok
       THEN /\ fileEnv' = Append(fileEnv, [size |-> size, read |-> "failed"])
            /\ stdout' = Append(stdout, "Error processing " \o FileNameOf(files[fileIdx]))
            /\ fileIdx' = fileIdx + 1
            /\ UNCHANGED <<pc, content, calls, docChunks, chunkIdx, chunkSummaries,
                           splitCalls>>
       ELSE /\ fileEnv' = Append(fileEnv, [size |-> size, read |-> "ok"])
            /\ BeginSummarize(r.content, FileNameOf(files[fileIdx]))
            /\ UNCHANGED <<stdout, fileIdx>>
  /\ UNCHANGED <<splitVars, editVars, llmVars, insVars, askVars, cfgVars, input, options, statResult, matchedFiles, files, mode, summaries,
                 processedFiles, delays, outFile, exitCode>>

\* `*File: ${file}* | *Tokens: ${tokens}*`
FileLine(e) == "*File: " \o e.file \o "* | *Tokens: " \o ToString(e.tokens) \o "*"

\* What generateIndividualSummaries writes for summaries k.., to the -o file
\* (toFile) or to stdout.
RECURSIVE IndividualLines(_, _, _)
IndividualLines(ss, k, toFile) ==
  IF k > Len(ss) THEN <<>>
  ELSE (IF toFile
        THEN <<"", "", "## Summary of " \o ss[k].fileName, FileLine(ss[k]), "">>
               \o SummaryBlock(ss[k].summary)
        ELSE <<"", "## " \o ss[k].fileName, FileLine(ss[k])>>
               \o SummaryBlock(ss[k].summary) \o <<"">>)
       \o IndividualLines(ss, k + 1, toFile)

\* summaries.reduce((sum, { tokens }) => sum + tokens, 0)
RECURSIVE totalTokens(_, _)
totalTokens(ss, k) == IF k > Len(ss) THEN 0 ELSE ss[k].tokens + totalTokens(ss, k + 1)

\* `*${summaries.length} files processed* | *Total tokens: ${totalTokens}*`
CombinedLine(ss) ==
  "*" \o ToString(Len(ss)) \o " files processed* | *Total tokens: "
      \o ToString(totalTokens(ss, 1)) \o "*"

\* `Completed processing ${processedFiles.length}/${files.length} files`
CompletedLine ==
  "Completed processing " \o ToString(Len(processedFiles)) \o "/"
      \o ToString(Len(files)) \o " files"

\* A summary came back from summarizeSingleChunk or summarizeInChunks: the
\* rest of processSingleInput, or of the loop turn of processMultipleFiles.
Deliver(summary) ==
  IF mode = "single"
  THEN /\ IF options.output
          THEN /\ outFile' = outFile
                    \o (IF files[1] # NullPath
                        THEN <<"", "", "## Summary of " \o files[1], "">>
                        ELSE <<"", "", "## Summary", "">>)
                    \o SummaryBlock(summary)
               /\ stdout' = Append(stdout, "Summary appended")
          ELSE /\ stdout' = stdout \o SummaryBlock(summary) \o <<"">>
               /\ UNCHANGED outFile
       /\ exitCode' = 0
       /\ pc' = "done"
       /\ UNCHANGED <<summaries, processedFiles, delays, fileIdx>>
  ELSE /\ summaries' = push(summaries,
                            [file |-> files[fileIdx],
                             fileName |-> FileNameOf(files[fileIdx]),
                             summary |-> summary,
                             tokens |-> estimateTokens(content)])
       /\ processedFiles' = push(processedFiles, files[fileIdx])
       /\ delays' = IF fileIdx < Len(files)
                    THEN Append(delays, [ms |-> 1000, file |-> fileIdx, chunk |-> 0])
                    ELSE delays
       /\ fileIdx' = fileIdx + 1
       /\ pc' = "fileLoop"
       /\ UNCHANGED <<stdout, outFile, exitCode>>

\* A slip of Throw: the loop turn of processMultipleFiles has no catch of
\* its own, so the error reaches summarize's catch.
Throw_Abort ==
  /\ Fail
  /\ UNCHANGED <<summaries, processedFiles, delays, fileIdx, outFile>>

\* A generation call threw inside summarizeSingleChunk or summarizeInChunks:
\* summarize's catch, or the catch of the loop turn of processMultipleFiles.
Throw ==
  IF mode = "single"
  THEN /\ Fail
       /\ UNCHANGED <<summaries, processedFiles, delays, fileIdx, outFile>>
  ELSE /\ stdout' = Append(stdout, "Error processing " \o FileNameOf(files[fileIdx]))
       /\ fileIdx' = fileIdx + 1
       /\ pc' = "fileLoop"
       /\ UNCHANGED <<summaries, processedFiles, delays, outFile, exitCode>>

\* The call of summarizeSingleChunk returns or throws.
ReturnSingleChunk ==
  /\ pc = "askSingle"
  /\ \E ok \in BOOLEAN :
       /\ calls' = Returned(ok)
       /\ IF ok THEN Deliver(GenText(Len(calls))) ELSE Throw
  /\ UNCHANGED <<splitVars, editVars, llmVars, insVars, askVars, cfgVars, input, options, statResult, matchedFiles, files, mode, fileEnv, content,
                 docChunks, chunkIdx, chunkSummaries, splitCalls>>

\* A chunk call of summarizeInChunks returns or throws; on a return the
\* summary is pushed and, after the delay, the next call is issued: the next
\* chunk's, or the final one.
ReturnChunk ==
  /\ pc = "askChunk"
  /\ \E ok \in BOOLEAN :
       IF ok
       THEN LET part == partLabel(chunkIdx, GenText(Len(calls)))
                n == Len(docChunks)
                name == FileNameOf(IF mode = "single" THEN files[1] ELSE files[fileIdx])
            IN  /\ chunkSummaries' = push(chunkSummaries, part)
                /\ chunkIdx' = chunkIdx + 1
                /\ IF chunkIdx < n
                   THEN /\ delays' = Append(delays, [ms |-> 500, file |-> fileIdx,
                                                     chunk |-> chunkIdx])
                        /\ calls' = Append(Returned(TRUE),
                                           Call("chunk", name, chunkIdx + 1, n,
                                                docChunks[chunkIdx + 1], <<>>))
                        /\ pc' = "askChunk"
                   ELSE /\ calls' = Append(Returned(TRUE),
                                           Call("final", name, 0, 0, <<>>,
                                                push(chunkSummaries, part)))
                        /\ pc' = "askFinal"
                        /\ UNCHANGED delays
                /\ UNCHANGED <<summaries, processedFiles, fileIdx, stdout, outFile,
                               exitCode>>
       ELSE /\ calls' = Returned(FALSE)
            /\ Throw
            /\ UNCHANGED <<chunkSummaries, chunkIdx>>
  /\ UNCHANGED <<splitVars, editVars, llmVars, insVars, askVars, cfgVars, input, options, statResult, matchedFiles, files, mode, fileEnv, content,
                 docChunks, splitCalls>>

\* The final call of summarizeInChunks returns or throws.
ReturnFinal ==
  /\ pc = "askFinal"
  /\ \E ok \in BOOLEAN :
       /\ calls' = Returned(ok)
       /\ IF ok THEN Deliver(GenText(Len(calls))) ELSE Throw
  /\ UNCHANGED <<splitVars, editVars, llmVars, insVars, askVars, cfgVars, input, options, statResult, matchedFiles, files, mode, fileEnv, content,
                 docChunks, chunkIdx, chunkSummaries, splitCalls>>

\* ${fileName}, ${tokens} and ${summary} of each entry of combinedContent.
CombinedParts(ss) ==
  [k \in 1..Len(ss) |->
     [fileName |-> ss[k].fileName, tokens |-> ss[k].tokens, summary |-> ss[k].summary]]

\* A slip of combines: the number of files is not looked at.
combines_FlagOnly == options.combine

\* Whether processMultipleFiles combines.
combines == options.combine \/ Len(files) > CombineThreshold

\* processMultipleFiles after its loop: generateIndividualSummaries and the
\* completed line, or generateCombinedSummary up to its generation call.
FinishFiles ==
  /\ pc = "fileLoop"
  /\ fileIdx > Len(files)
  /\ IF combines
     THEN /\ stdout' = Append(stdout, "Creating combined summary")
          /\ calls' = Append(calls, Call("combined", "", 0, 0, <<>>,
                                         CombinedParts(summaries)))
          /\ pc' = "askCombined"
          /\ UNCHANGED <<outFile, exitCode>>
     ELSE /\ IF options.output
             THEN /\ outFile' = outFile \o IndividualLines(summaries, 1, TRUE)
                  /\ stdout' = stdout \o <<"Generating individual summaries",
                                           "Individual summaries appended",
                                           CompletedLine>>
             ELSE /\ stdout' = stdout \o <<"Generating individual summaries">>
                                      \o IndividualLines(summaries, 1, FALSE)
                                      \o <<CompletedLine>>
                  /\ UNCHANGED outFile
          /\ exitCode' = 0
          /\ pc' = "done"
          /\ UNCHANGED calls
  /\ UNCHANGED <<splitVars, editVars, llmVars, insVars, askVars, cfgVars, input, options, statResult, matchedFiles, files, mode, fileIdx, fileEnv,
                 content, docChunks, chunkIdx, chunkSummaries, summaries,
                 processedFiles, delays, splitCalls>>

\* The call of generateCombinedSummary returns or throws: the combined block
\* and the completed line, or summarize's catch.
ReturnCombined ==
  /\ pc = "askCombined"
  /\ \E ok \in BOOLEAN :
       /\ calls' = Returned(ok)
       /\ IF ok
          THEN /\ IF options.output
                  THEN /\ outFile' = outFile
                            \o <<"", "", "## Combined Summary", CombinedLine(summaries), "">>
                            \o SummaryBlock(GenText(Len(calls)))
                       /\ stdout' = stdout \o <<"Combined summary appended", CompletedLine>>
                  ELSE /\ stdout' = stdout
                            \o <<"", "## Combined Summary", CombinedLine(summaries)>>
                            \o SummaryBlock(GenText(Len(calls))) \o <<"", CompletedLine>>
                       /\ UNCHANGED outFile
               /\ exitCode' = 0
               /\ pc' = "done"
          ELSE /\ Fail
               /\ UNCHANGED outFile
  /\ UNCHANGED <<splitVars, editVars, llmVars, insVars, askVars, cfgVars, input, options, statResult, matchedFiles, files, mode, fileIdx, fileEnv,
                 content, docChunks, chunkIdx, chunkSummaries, summaries,
                 processedFiles, delays, splitCalls>>

Next ==
  \/ Resolve
  \/ ProcessSingleInput
  \/ ProcessFile
  \/ ReturnSingleChunk
  \/ ReturnChunk
  \/ ReturnFinal
  \/ FinishFiles
  \/ ReturnCombined

Spec == Init /\ [][Next]_vars

\* ------------------------------------------------- edit: constants, helpers

\* Most lines a file of the edit command holds.
MaxLines == 3

\* The keys of EDIT_ACTIONS.
EDIT_ACTIONS ==
  {"simplify", "clarify", "shorten", "expand", "improve", "rewrite",
   "translate", "fix"}

\* Property names every object literal inherits from Object.prototype:
\* EDIT_ACTIONS[name] is a function for them, which is truthy.
ObjectPrototypeKeys ==
  {"constructor", "toString", "toLocaleString", "valueOf", "hasOwnProperty",
   "isPrototypeOf", "propertyIsEnumerable", "__proto__"}

\* !EDIT_ACTIONS[action] is false.
knownAction(action) == action \in EDIT_ACTIONS \cup ObjectPrototypeKeys

\* The values the --action option takes here ("": not given).
ActionArgs == {"", "fix", "bogus", "toString"}

\* The values the --section option takes here (<<>>: not given).
SectionArgs == {<<>>, <<"a">>, <<"B">>, <<"z">>}

\* The lines a file is made of here: "# a", "## ab", " # B", "t" and the
\* empty line.
FileLines ==
  {<<"#", " ", "a">>, <<"#", "#", " ", "a", "b">>, <<" ", "#", " ", "B">>, <<"t">>,
   <<>>}

\* The files of at most n lines, as content.split('\n') gives them: at least
\* one line, the empty file being one empty line.
FilesOf(n) == UNION {[1..k -> FileLines] : k \in 1..n}

\* String.prototype.toLowerCase over a text.
toLowerCaseText(s) ==
  [i \in 1..Len(s) |-> IF s[i] = "A" THEN "a" ELSE IF s[i] = "B" THEN "b" ELSE s[i]]

\* String.prototype.includes
includes(s, sub) ==
  \E k \in 0..(Len(s) - Len(sub)) : SubSeq(s, k + 1, k + Len(sub)) = sub

\* Length of the maximal run of "#" of s that starts at index q.
RECURSIVE HashRun(_, _)
HashRun(s, q) ==
  IF q <= Len(s) /\ s[q] = "#" THEN 1 + HashRun(s, q + 1) ELSE 0

\* line.trim().match(/^(#{1,6})\s+(.+)$/): the level and the title, or
\* level 0 for no match.
headerMatch(line) ==
  LET t == trim(line)
      h == HashRun(t, 1)
      w == WsRun(t, h + 1)
  IN  IF h \in 1..6 /\ w >= 1 /\ h + w < Len(t)
      THEN [level |-> h, title |-> SubSeq(t, h + w + 1, Len(t))]
      ELSE [level |-> 0, title |-> <<>>]

\* The test of the first loop of extractSection on line i (1-based).
sectionMatches(lines, i, sectionName) ==
  LET m == headerMatch(lines[i])
  IN  /\ m.level > 0
      /\ \/ includes(toLowerCaseText(m.title), toLowerCaseText(sectionName))
         \/ includes(toLowerCaseText(sectionName), toLowerCaseText(m.title))

\* The first loop of extractSection from line i (1-based): the index of the
\* first header line that matches, or 0.
RECURSIVE sectionStart(_, _, _)
sectionStart(lines, i, sectionName) ==
  IF i > Len(lines) THEN 0
  ELSE IF sectionMatches(lines, i, sectionName) THEN i
  ELSE sectionStart(lines, i + 1, sectionName)

\* A slip of sectionEnd: only a header of the very same level ends the
\* section.
RECURSIVE sectionEnd_SameLevel(_, _, _)
sectionEnd_SameLevel(lines, i, headerLevel) ==
  IF i > Len(lines) THEN Len(lines) + 1
  ELSE IF headerMatch(lines[i]).level = headerLevel THEN i
  ELSE sectionEnd_SameLevel(lines, i + 1, headerLevel)

\* The second loop of extractSection from line i (1-based): the index of the
\* next header of the same or a higher level, or one past the last line.
RECURSIVE sectionEnd(_, _, _)
sectionEnd(lines, i, headerLevel) ==
  IF i > Len(lines) THEN Len(lines) + 1
  ELSE IF headerMatch(lines[i]).level \in 1..headerLevel THEN i
  ELSE sectionEnd(lines, i + 1, headerLevel)

\* extractSection: null (found FALSE), or the section's content and its
\* 0-based start and end as the code returns them.
extractSection(lines, sectionName) ==
  LET s == sectionStart(lines, 1, sectionName)
  IN  IF s = 0
      THEN [found |-> FALSE, content |-> <<>>, start |-> -1, end |-> Len(lines)]
      ELSE LET e == sectionEnd(lines, s + 1, headerMatch(lines[s]).level)
           IN  [found |-> TRUE, content |-> SubSeq(lines, s, e - 1),
                start |-> s - 1, end |-> e - 1]

\* A slip of slice: the line at from is left out.
slice_AfterFrom(lines, from, to) == SubSeq(lines, from + 2, to)

\* lines.slice(from, to), 0-based and half-open.
slice(lines, from, to) == SubSeq(lines, from + 1, to)

\* A line that is not made of the file's characters: a marker, a message,
\* or a generated text, kept whole.
Whole(str) == <<str>>

\* The block of handleComparisonOutput's display.
EditBlock(editedContent) ==
  <<Whole("<!-- AI:edit -->"), editedContent, Whole("<!-- /AI -->")>>

\* The block appended to the -o file, with its header line.
EditBlockTitled(title, editedContent) ==
  <<Whole("<!-- AI:edit -->"), Whole(title), <<>>, editedContent,
    Whole("<!-- /AI -->")>>

\* ------------------------------------------------------ edit: the actions

InitEdit ==
  /\ OthersIdle
  /\ SplitIdle
  /\ SumIdle
  /\ LlmIdle
  /\ target \in {[exists |-> FALSE, lines |-> <<>>]}
                 \cup {[exists |-> TRUE, lines |-> ls] : ls \in FilesOf(MaxLines)}
  /\ editOptions \in [section : SectionArgs, action : ActionArgs,
                      replace : BOOLEAN, output : BOOLEAN,
                      instructions : BOOLEAN]
  /\ originalContent = <<>>
  /\ editCalls = <<>>
  /\ backups = <<>>
  /\ editStdout = <<>>
  /\ editOutFile = <<>>
  /\ editExit = -1
  /\ editPc = "edit"

\* console.error and process.exit(1): the two checks of edit, and its catch.
EditFail(message) ==
  /\ editStdout' = Append(editStdout, Whole(message))
  /\ editExit' = 1
  /\ editPc' = "done"

\* edit up to its generation call: the file is checked and read, the section
\* is looked up, the action is checked and the prompt is sent.
Edit ==
  /\ editPc = "edit"
  /\ IF ~target.exists
     THEN /\ EditFail("Error: File not found")
          /\ UNCHANGED <<originalContent, editCalls>>
     ELSE \E readOk \in BOOLEAN :
       IF ~readOk
       THEN /\ EditFail("Error")
            /\ UNCHANGED <<originalContent, editCalls>>
       ELSE LET section == extractSection(target.lines, editOptions.section)
                targeted == editOptions.section # <<>> /\ section.found
                contentToEdit == IF targeted THEN section.content ELSE target.lines
                action == IF editOptions.action = "" THEN "improve"
                          ELSE editOptions.action
            IN  /\ originalContent' = target.lines
                /\ IF ~knownAction(action)
                   THEN /\ EditFail("Error: Unknown action")
                        /\ UNCHANGED editCalls
                   ELSE /\ editCalls' = <<[action |-> action,
                                           instructions |-> editOptions.instructions,
                                           content |-> contentToEdit,
                                           status |-> "pending", text |-> ""]>>
                        /\ editStdout' = editStdout
                             \o <<Whole("Reading file")>>
                             \o (IF editOptions.section = <<>> THEN <<>>
                                 ELSE IF section.found THEN <<Whole("Targeting section")>>
                                 ELSE <<Whole("Section not found, editing entire file")>>)
                             \o <<Whole("Action: " \o action)>>
                        /\ editPc' = "askLLM"
                        /\ UNCHANGED editExit
  /\ UNCHANGED <<splitVars, sumVars, llmVars, insVars, askVars, cfgVars, target, editOptions, backups, editOutFile>>

\* A slip of createBackup: no copy is made before the file is written.
createBackup_Skipped == UNCHANGED backups

\* fs.promises.copyFile(filePath, backupPath) succeeded.
createBackup == backups' = Append(backups, target.lines)

\* handleSectionEdit ("[fence]" stands for the three backquotes of a code fence)
handleSectionEdit(editedContent) ==
  LET section == extractSection(originalContent, editOptions.section)
  IN  /\ IF ~section.found
         THEN /\ editStdout' = Append(editStdout, Whole("Could not locate section for replacement"))
              /\ UNCHANGED editOutFile
         ELSE IF editOptions.output
         THEN /\ editOutFile' = editOutFile \o <<<<>>, <<>>>>
                   \o EditBlockTitled("## Edited Section", editedContent)
              /\ editStdout' = Append(editStdout, Whole("Edited section appended"))
         ELSE /\ editStdout' = editStdout
                   \o <<Whole("Original section:"), Whole("[fence]markdown")>>
                   \o section.content
                   \o <<Whole("[fence]"), Whole("Edited section:"), Whole("[fence]markdown"),
                        editedContent, Whole("[fence]")>>
              /\ UNCHANGED editOutFile
      /\ editExit' = 0
      /\ editPc' = "done"
      /\ UNCHANGED <<target, backups>>

\* handleSectionReplace, with the result of its copyFile.
handleSectionReplace(editedContent, copyOk) ==
  LET section == extractSection(originalContent, editOptions.section)
  IN  IF ~section.found
      THEN /\ editStdout' = Append(editStdout, Whole("Could not locate section for replacement"))
           /\ editExit' = 0
           /\ editPc' = "done"
           /\ UNCHANGED <<target, backups, editOutFile>>
      ELSE IF ~copyOk
      THEN /\ EditFail("Error")
           /\ UNCHANGED <<target, backups, editOutFile>>
      ELSE /\ createBackup
           /\ target' = [target EXCEPT !.lines =
                           slice(originalContent, 0, section.start)
                             \o <<editedContent>>
                             \o slice(originalContent, section.end, Len(originalContent))]
           /\ editStdout' = editStdout \o <<Whole("Backup created"), Whole("Section replaced")>>
           /\ editExit' = 0
           /\ editPc' = "done"
           /\ UNCHANGED editOutFile

\* handleFileReplace, with the result of its copyFile.
handleFileReplace(editedContent, copyOk) ==
  IF ~copyOk
  THEN /\ EditFail("Error")
       /\ UNCHANGED <<target, backups, editOutFile>>
  ELSE /\ createBackup
       /\ target' = [target EXCEPT !.lines = <<editedContent>>]
       /\ editStdout' = editStdout \o <<Whole("Backup created"), Whole("File replaced")>>
       /\ editExit' = 0
       /\ editPc' = "done"
       /\ UNCHANGED editOutFile

\* handleComparisonOutput
handleComparisonOutput(editedContent) ==
  /\ IF editOptions.output
     THEN /\ editOutFile' = editOutFile \o <<<<>>, <<>>>>
               \o EditBlockTitled("## Edited version", editedContent)
          /\ editStdout' = Append(editStdout, Whole("Edited content appended"))
     ELSE /\ editStdout' = editStdout \o <<Whole("Edited content:")>>
               \o EditBlock(editedContent) \o <<<<>>>>
          /\ UNCHANGED editOutFile
  /\ editExit' = 0
  /\ editPc' = "done"
  /\ UNCHANGED <<target, backups>>

\* edit from the return of its generation call: the catch if the call
\* failed, else the handler its options select.
EditReturn ==
  /\ editPc = "askLLM"
  /\ \E ok \in BOOLEAN, copyOk \in BOOLEAN :
       /\ editCalls' = [editCalls EXCEPT ![1] =
                          [@ EXCEPT !.status = IF ok THEN "ok" ELSE "failed",
                                    !.text = IF ok THEN GenText(1) ELSE ""]]
       /\ IF ~ok
          THEN /\ EditFail("Error")
               /\ UNCHANGED <<target, backups, editOutFile>>
          ELSE IF editOptions.section # <<>>
          THEN IF editOptions.replace
               THEN handleSectionReplace(Whole(GenText(1)), copyOk)
               ELSE handleSectionEdit(Whole(GenText(1)))
          ELSE IF editOptions.replace
          THEN handleFileReplace(Whole(GenText(1)), copyOk)
          ELSE handleComparisonOutput(Whole(GenText(1)))
  /\ UNCHANGED <<splitVars, sumVars, llmVars, insVars, askVars, cfgVars, editOptions, originalContent>>

NextEdit ==
  \/ Edit
  \/ EditReturn

SpecEdit == InitEdit /\ [][NextEdit]_vars


\* ------------------------------------------ llm: the settings of a call

\* Most generation calls of one process.
MaxCalls == 2

\* The values of --provider here, and those stored in the config file.
CliProviders == {"", "openai", "anthropic", "ollama", "mistral"}
FileProviders == {"", "openai", "anthropic", "ollama"}

\* The base URL that stands for the provider's own default endpoint.
DefaultBaseUrl == "default"

\* a || b
OrElse(a, b) == IF a # "" THEN a ELSE b

\* getModel's switch on a known provider whose SDK reads its key from the
\* environment variable var: the variable is set from apiKey only when it
\* is not set already, and the SDK's default instance then reads it.
SdkModel(provider, model, apiKey, var, env) ==
  LET env2 == IF apiKey # "" /\ env[var] = ""
              THEN [env EXCEPT ![var] = apiKey] ELSE env
  IN  [env |-> env2,
       uses |-> {[provider |-> provider, model |-> model,
                  apiKey |-> env2[var], baseUrl |-> DefaultBaseUrl]}]

\* getModel: the environment it leaves, and the settings the call may use.
getModel(cli, config, env) ==
  LET provider == OrElse(cli.provider, OrElse(config.provider, "openai"))
      model == OrElse(cli.model, OrElse(config.model, "gpt-4o"))
      apiKey == OrElse(cli.apiKey, config.apiKey)
      baseUrl == OrElse(cli.baseUrl, config.baseUrl)
  IN  IF provider = "openai"
      THEN SdkModel("openai", model, apiKey, "OPENAI_API_KEY", env)
      ELSE IF provider = "anthropic"
      THEN SdkModel("anthropic", model, apiKey, "ANTHROPIC_API_KEY", env)
      ELSE IF provider = "ollama"
      THEN [env |-> env,
            uses |-> {[provider |-> "ollama", model |-> model, apiKey |-> "",
                       baseUrl |-> OrElse(baseUrl, "http://localhost:11434")]}]
      ELSE \* openai('gpt-4o', fallbackConfig): whether the SDK takes the key
           \* from these settings or from the environment is its own matter
           [env |-> env,
            uses |-> {[provider |-> "openai", model |-> "gpt-4o", apiKey |-> k,
                       baseUrl |-> DefaultBaseUrl] :
                        k \in {env.OPENAI_API_KEY, OrElse(apiKey, env.OPENAI_API_KEY)}}]

InitLlm ==
  /\ OthersIdle
  /\ SplitIdle
  /\ SumIdle
  /\ EditIdle
  /\ cliOptions \in [provider : CliProviders, model : {"", "cli-model"},
                      apiKey : {"", "cli-key"}, baseUrl : {"", "cli-url"}]
  /\ configFile \in [provider : FileProviders, model : {"", "file-model"},
                      apiKey : {"", "file-key"}, baseUrl : {"", "file-url"}]
  /\ processEnv \in [OPENAI_API_KEY : {"", "env-key"},
                      ANTHROPIC_API_KEY : {"", "env-key"}]
  /\ modelUses = <<>>

\* One generation call of the process: askLLM with getModel.
AskLLM ==
  /\ Len(modelUses) < MaxCalls
  /\ LET m == getModel(cliOptions, configFile, processEnv) IN
       /\ processEnv' = m.env
       /\ \E u \in m.uses : modelUses' = Append(modelUses, u)
  /\ UNCHANGED <<splitVars, sumVars, editVars, insVars, askVars, cfgVars, cliOptions, configFile>>

NextLlm == AskLLM

SpecLlm == InitLlm /\ [][NextLlm]_vars

\* ------------------------------------------------- claims on the splitter

NoWhiteSpace(s) == \A i \in 1..Len(s) : s[i] \notin WhiteSpace

\* s without its whitespace characters.
StripWs(s) == SelectSeq(s, LAMBDA c : c \notin WhiteSpace)

\* The whitespace-free words of s, in order.
WordsOf(s) == filterNonEmpty(split(s, "word"))

\* C1 (as claimed): every chunk returned is at most maxChunkSize long unless
\* it is one atomic unit, a chunk with no word or paragraph break inside it;
\* a chunk holding whitespace (several words or sentences) is never longer
\* than maxChunkSize.
C1_ChunkWithinBudgetOrAtomic ==
  splitPc = "done" =>
    \A i \in 1..Len(chunks) :
      Len(chunks[i]) <= maxChunkSize \/ NoWhiteSpace(chunks[i])

\* The chunks, rejoined with single spaces, hold the non-whitespace characters
\* of the input exactly once and in order.
ContentPreserved ==
  splitPc = "done" => StripWs(join(chunks, <<" ">>)) = StripWs(text)

\* Every word of the input longer than maxChunkSize is a chunk of its own.
OversizedWordOwnChunk ==
  splitPc = "done" =>
    \A k \in 1..Len(WordsOf(text)) :
      Len(WordsOf(text)[k]) > maxChunkSize =>
        \E i \in 1..Len(chunks) : chunks[i] = WordsOf(text)[k]

\* C2 (as claimed): the chunks rejoined with single spaces hold every
\* non-whitespace character of the input exactly once and in order, and a
\* word longer than maxChunkSize is emitted whole as its own chunk.
C2_ContentPreservedWordsWhole == ContentPreserved /\ OversizedWordOwnChunk

\* C3 (as claimed): every non-empty input yields at least one chunk.
C3_NonEmptyInputHasChunk ==
  (splitPc = "done" /\ Len(text) > 0) => Len(chunks) >= 1

\* C3 (amended): every input with at least one non-whitespace character
\* yields at least one chunk.
C3_NonBlankInputHasChunk ==
  (splitPc = "done" /\ StripWs(text) # <<>>) => Len(chunks) >= 1

\* A text of several sentences, with whitespace around them, was split.
C3_Witness ==
  /\ splitPc = "done"
  /\ StripWs(text) # <<>>
  /\ text[1] \in WhiteSpace
  /\ Len(chunks) >= 2

\* ------------------------------------------ claims on the summarize command

\* The texts that lines hold between a summary start marker and an end marker.
RECURSIVE BlockTexts(_, _)
BlockTexts(lines, k) ==
  IF k + 2 > Len(lines) THEN <<>>
  ELSE IF lines[k] = "<!-- AI:summary -->" /\ lines[k + 2] = "<!-- /AI -->"
       THEN <<lines[k + 1]>> \o BlockTexts(lines, k + 3)
       ELSE BlockTexts(lines, k + 1)

\* Where the run delivers its summaries, and the other stream.
Delivered == IF options.output THEN outFile ELSE stdout
NotDelivered == IF options.output THEN stdout ELSE outFile

\* A single-document run that has its document: direct text, or a file read.
SingleDoc ==
  /\ mode = "single"
  /\ pc \notin {"resolve", "processSingleInput"}
  /\ (files[1] = NullPath \/ fileEnv[1].read = "ok")

\* C4: a single document whose estimate exceeds the budget is summarized by
\* one call per chunk the splitter returned, in chunk order, each naming its
\* part i of n, then one final call whose prompt holds the n partial
\* summaries labelled Part 1..n in order; never more than n + 1 calls, and
\* exactly n + 1 when every call has returned.
C4_ChunkedCalls ==
  (SingleDoc /\ estimateTokens(content) > MAX_INPUT_TOKENS) =>
    LET n == Len(docChunks) IN
    /\ Len(calls) <= n + 1
    /\ \A j \in 1..Len(calls) :
         IF j <= n
         THEN /\ calls[j].kind = "chunk"
              /\ calls[j].part = j
              /\ calls[j].of = n
              /\ calls[j].content = docChunks[j]
         ELSE /\ calls[j].kind = "final"
              /\ Len(calls[j].parts) = n
              /\ \A i \in 1..n :
                   /\ calls[j].parts[i].part = i
                   /\ calls[j].parts[i].summary = calls[i].text
                   /\ calls[i].status = "ok"
    /\ (pc = "done" /\ exitCode = 0) => Len(calls) = n + 1
    /\ splitCalls = 1

\* A document of three chunks was summarized by four calls.
C4_Witness ==
  /\ SingleDoc
  /\ estimateTokens(content) > MAX_INPUT_TOKENS
  /\ pc = "done"
  /\ exitCode = 0
  /\ Len(docChunks) = 3
  /\ Len(calls) = 4

\* C5: a single document whose estimate is within the budget is summarized
\* by exactly one call, on the whole content, without the splitter, and the
\* text between the summary markers is that call's result.
C5_OneCallWithinBudget ==
  (SingleDoc /\ estimateTokens(content) <= MAX_INPUT_TOKENS) =>
    /\ Len(calls) = 1
    /\ calls[1].kind = "single"
    /\ calls[1].content = content
    /\ splitCalls = 0
    /\ (pc = "done" /\ exitCode = 0) =>
         /\ calls[1].status = "ok"
         /\ BlockTexts(Delivered, 1) = <<calls[1].text>>

\* A file within the budget was summarized and its summary appended.
C5_Witness ==
  /\ SingleDoc
  /\ files[1] # NullPath
  /\ Len(content) > 0
  /\ estimateTokens(content) <= MAX_INPUT_TOKENS
  /\ pc = "done"
  /\ exitCode = 0
  /\ options.output
  /\ BlockTexts(outFile, 1) = <<"gen1">>

\* C6: in a single-document run a failed generation call is the last call
\* (none is issued after it, it is not retried), no summary block is printed
\* or appended, and the command has exited with a non-zero status.
C6_FailureAborts ==
  (mode = "single" /\ \E k \in 1..Len(calls) : calls[k].status = "failed") =>
    /\ \A k \in 1..Len(calls) : calls[k].status = "failed" => k = Len(calls)
    /\ pc = "done"
    /\ exitCode > 0
    /\ BlockTexts(stdout, 1) = <<>>
    /\ outFile = <<>>

\* The second chunk call of a single document failed.
C6_Witness ==
  /\ mode = "single"
  /\ Len(calls) = 2
  /\ calls[1].status = "ok"
  /\ calls[2].kind = "chunk"
  /\ calls[2].status = "failed"

\* The files of a multi-file run, among the first m, that were neither
\* skipped for their size nor failed (a read error, a failed generation call).
FileSkipped(k) == fileEnv[k].size > BatchSizeLimitMB
FileFailed(k) ==
  \/ fileEnv[k].read = "failed"
  \/ \E j \in 1..Len(calls) : calls[j].file = k /\ calls[j].status = "failed"
RECURSIVE Survivors(_, _)
Survivors(k, m) ==
  IF k > m THEN <<>>
  ELSE (IF FileSkipped(k) \/ FileFailed(k) THEN <<>> ELSE <<k>>) \o Survivors(k + 1, m)

\* The last generation call issued for file k.
LastCallOf(k) ==
  CHOOSE j \in 1..Len(calls) :
    calls[j].file = k /\ \A i \in 1..Len(calls) : calls[i].file = k => i <= j

\* C7: in a multi-file run a failure on a file or a skip removes only that
\* file: the summaries held are, in order, one for each file gone through
\* that neither failed nor was skipped, each the result of that file's last
\* call, and when the loop is over every file has been gone through.
C7_FailureIsolatedPerFile ==
  mode = "multi" =>
    LET gone == IF fileIdx > Len(files) THEN Len(files) ELSE fileIdx - 1
        kept == Survivors(1, gone)
    IN  /\ Len(fileEnv) >= gone
        /\ Len(summaries) = Len(kept)
        /\ \A j \in 1..Len(kept) :
             /\ summaries[j].file = files[kept[j]]
             /\ summaries[j].summary = calls[LastCallOf(kept[j])].text
             /\ calls[LastCallOf(kept[j])].status = "ok"
        /\ processedFiles = [j \in 1..Len(kept) |-> files[kept[j]]]
        /\ pc \in {"askCombined", "done"} =>
             (fileIdx = Len(files) + 1 /\ Len(fileEnv) = Len(files))

\* Of three files the second failed at a generation call, the others were
\* summarized.
C7_Witness ==
  /\ mode = "multi"
  /\ pc = "done"
  /\ Len(files) = 3
  /\ Len(fileEnv) = 3
  /\ ~FileFailed(1) /\ ~FileSkipped(1)
  /\ FileFailed(2) /\ fileEnv[2].read = "ok"
  /\ ~FileFailed(3) /\ ~FileSkipped(3)
  /\ Len(summaries) = 2

\* The calls of generateCombinedSummary.
CombinedCalls == {j \in 1..Len(calls) : calls[j].kind = "combined"}

\* C8: when a multi-file run has ended, if --combine was given or the files
\* are more than the threshold, exactly one call was issued after the files,
\* over all per-file summaries in order, and no block but the combined
\* summary's is emitted; otherwise no call was issued after the files and
\* the blocks emitted are the per-file summaries, in order.
C8_CombineOrIndividual ==
  (mode = "multi" /\ pc = "done") =>
    IF options.combine \/ Len(files) > CombineThreshold
    THEN /\ CombinedCalls = {Len(calls)}
         /\ Len(calls[Len(calls)].parts) = Len(summaries)
         /\ \A j \in 1..Len(summaries) :
              /\ calls[Len(calls)].parts[j].fileName = summaries[j].fileName
              /\ calls[Len(calls)].parts[j].summary = summaries[j].summary
         /\ BlockTexts(Delivered, 1) =
              (IF exitCode = 0 THEN <<calls[Len(calls)].text>> ELSE <<>>)
         /\ BlockTexts(NotDelivered, 1) = <<>>
    ELSE /\ CombinedCalls = {}
         /\ \A j \in 1..Len(calls) : calls[j].file \in 1..Len(files)
         /\ BlockTexts(Delivered, 1) = [j \in 1..Len(summaries) |-> summaries[j].summary]
         /\ BlockTexts(NotDelivered, 1) = <<>>

\* Three files, more than the threshold, were combined without --combine.
C8_Witness ==
  /\ mode = "multi"
  /\ pc = "done"
  /\ exitCode = 0
  /\ ~options.combine
  /\ Len(files) > CombineThreshold
  /\ Len(summaries) >= 2
  /\ Len(BlockTexts(stdout, 1)) = 1

\* ---------------------------------------------- claims on the marker blocks

\* Line i of lines lies inside a block: a start marker before it and an end
\* marker after it, with no marker in between.
InBlock(lines, i, start, end) ==
  \E j \in 1..(i - 1), k \in (i + 1)..Len(lines) :
    /\ lines[j] = start
    /\ lines[k] = end
    /\ \A m \in (j + 1)..(k - 1) : lines[m] \notin {start, end}

\* Every generated text among lines, the texts being those of the calls cs
\* written as wrap makes a line of them, lies inside a block.
GeneratedInBlocks(lines, cs, start, end) ==
  \A i \in 1..Len(lines) :
    (\E c \in 1..Len(cs) : cs[c].status = "ok" /\ lines[i] = cs[c].text)
      => InBlock(lines, i, start, end)

\* The same for the edit command, whose lines are texts.
EditGeneratedInBlocks(lines) ==
  \A i \in 1..Len(lines) :
    (\E c \in 1..Len(editCalls) :
        editCalls[c].status = "ok" /\ lines[i] = Whole(editCalls[c].text))
      => InBlock(lines, i, Whole("<!-- AI:edit -->"), Whole("<!-- /AI -->"))

\* What summarize writes of generated text is inside summary blocks.
SummarizeWritesBlocks ==
  /\ GeneratedInBlocks(stdout, calls, "<!-- AI:summary -->", "<!-- /AI -->")
  /\ GeneratedInBlocks(outFile, calls, "<!-- AI:summary -->", "<!-- /AI -->")

\* C9 (as claimed): every generated text a command writes to stdout or to
\* a file is enclosed in a marker block, a start marker line before it and
\* the end marker line after it; no generated text is written to a file
\* outside such a block.
C9_GeneratedTextInMarkerBlock ==
  /\ SummarizeWritesBlocks
  /\ EditGeneratedInBlocks(editStdout)
  /\ EditGeneratedInBlocks(editOutFile)
  /\ EditGeneratedInBlocks(target.lines)

\* The part of C9 on files alone.
EditFilesInBlocks ==
  /\ EditGeneratedInBlocks(editOutFile)
  /\ EditGeneratedInBlocks(target.lines)

\* The part of C9 on the -o file and on the whole-file display alone.
EditAppendAndDisplayInBlocks ==
  /\ EditGeneratedInBlocks(editOutFile)
  /\ (editOptions.section = <<>> /\ ~editOptions.replace)
       => EditGeneratedInBlocks(editStdout)

\* C10 (as claimed): when the input names a path that does not exist, the
\* command issues no generation call, writes no summary, reports an error
\* and exits with a non-zero status.
C10_MissingPathIsAnError ==
  (input.meantAs = "path" /\ statResult = "absent" /\ pc # "resolve") =>
    /\ calls = <<>>
    /\ outFile = <<>>
    /\ BlockTexts(stdout, 1) = <<>>
    /\ pc = "done" => exitCode > 0

\* --------------------------------------- claims on the resolution of input

\* The lines of a stream, as a set.
LinesOf(lines) == {lines[i] : i \in 1..Len(lines)}

\* C11 (as claimed): an input that is no existing file or directory and is
\* meant as direct text is summarized as direct text, whatever characters
\* it holds: it resolves to the direct-text entry, the summarizer runs on
\* it, with one generation call on the whole text when it fits the budget.
C11_DirectTextSummarizedAsText ==
  (input.meantAs = "text" /\ statResult = "absent" /\ pc # "resolve") =>
    /\ files = <<NullPath>>
    /\ mode = "single"
    /\ pc # "processSingleInput" =>
         /\ content = input.arg
         /\ Len(calls) >= 1
         /\ fitsOneCall(estimateTokens(input.arg)) =>
              (Len(calls) = 1 /\ calls[1].content = input.arg)

\* The part of C11 that the code keeps: a text without '*', '?' and '['.
DirectTextWithoutGlobChars ==
  (input.meantAs = "text" /\ ~includesGlobChar(input.arg)) =>
    C11_DirectTextSummarizedAsText

\* The input was resolved by a directory scan or by a glob pattern.
ScannedOrGlobbed ==
  \/ statResult = "dir"
  \/ statResult = "absent" /\ includesGlobChar(input.arg)

\* C12: when a directory scan or a glob pattern resolves to zero eligible
\* files, summarize prints the message, issues no generation call, writes
\* to no file and returns normally with exit status 0.
C12_NoFilesIsNotAnError ==
  (pc # "resolve" /\ ScannedOrGlobbed /\ files = <<>>) =>
    /\ pc = "done"
    /\ exitCode = 0
    /\ calls = <<>>
    /\ outFile = <<>>
    /\ stdout = <<"No files found matching the input criteria.">>

\* A directory whose files are all ineligible was scanned, and the command
\* has returned.
C12_Witness ==
  /\ pc = "done"
  /\ statResult = "dir"
  /\ Len(matchedFiles) >= 2
  /\ files = <<>>
  /\ options.output

\* C13: at every point of a summarize run at most one generation call is
\* outstanding, the last one issued; the calls are in file order, and in
\* chunk order within a file, the final call of a chunked document after
\* its chunk calls.
C13_OneOutstandingCall ==
  /\ \A j \in 1..(Len(calls) - 1) : calls[j].status # "pending"
  /\ \A j \in 1..(Len(calls) - 1) :
       /\ calls[j].file <= calls[j + 1].file
       /\ (calls[j].file = calls[j + 1].file /\ calls[j + 1].kind = "chunk") =>
            (calls[j].kind = "chunk" /\ calls[j + 1].part = calls[j].part + 1)
       /\ (calls[j].file = calls[j + 1].file /\ calls[j].kind = "chunk") =>
            calls[j + 1].kind \in {"chunk", "final"}
       /\ (calls[j].file # calls[j + 1].file /\ calls[j + 1].kind = "chunk") =>
            calls[j + 1].part = 1

\* A multi-file run has issued the first chunk call of its second chunked
\* file, which is outstanding, after the calls of the first.
C13_Witness ==
  /\ mode = "multi"
  /\ Len(calls) >= 4
  /\ calls[Len(calls)].status = "pending"
  /\ calls[Len(calls)].kind = "chunk"
  /\ calls[Len(calls)].file = 2
  /\ calls[1].kind = "chunk" /\ calls[1].file = 1

\* The extensions modelled, each with its lower-case form.
CaseVariants == {<<".md", ".md">>, <<".MD", ".md">>, <<".png", ".png">>}

\* The extension is in the allow-list, compared case-insensitively.
Eligible(ext) ==
  \E v \in CaseVariants : v[1] = ext /\ v[2] \in TEXT_EXTENSIONS

\* The eligible files among those matched from the k-th on, in their order.
RECURSIVE EligibleFiles(_, _)
EligibleFiles(matched, k) ==
  IF k > Len(matched) THEN <<>>
  ELSE (IF Eligible(matched[k].ext) THEN <<PathOf(matched, k)>> ELSE <<>>)
         \o EligibleFiles(matched, k + 1)

\* C14: for a directory or glob input the files selected for processing are
\* exactly the matched files whose extension, compared case-insensitively,
\* is in the allow-list.
C14_ExactlyEligibleFilesSelected ==
  (pc # "resolve" /\ ScannedOrGlobbed) =>
    /\ files = EligibleFiles(matchedFiles, 1)
    /\ LinesOf(files) =
         {PathOf(matchedFiles, k) : k \in {i \in 1..Len(matchedFiles) :
                                             Eligible(matchedFiles[i].ext)}}

\* A scan matched two files of an upper-case eligible extension and an
\* ineligible one, and the two eligible files are being processed.
C14_Witness ==
  /\ statResult = "dir"
  /\ Len(matchedFiles) = 3
  /\ {matchedFiles[k].ext : k \in 1..3} = {".MD", ".png"}
  /\ Len(files) = 2
  /\ mode = "multi"
  /\ calls # <<>>


\* ------------------------------------------------ claims on the edit command

\* C15: whenever edit --replace overwrites the target file, whole or one
\* section, a backup holding the file's content from before the edit was
\* made first, and it is the only one; if the backup cannot be made the
\* target file is left as it was.
C15_BackupBeforeOverwrite ==
  /\ editCalls = <<>> => (backups = <<>> /\ (editPc = "done" => originalContent \in {<<>>, target.lines}))
  /\ editCalls # <<>> =>
       /\ target.lines # originalContent =>
            (editOptions.replace /\ backups = <<originalContent>>)
       /\ (editCalls[1].status = "ok" /\ editExit = 1) =>
            (target.lines = originalContent /\ backups = <<>>)
       /\ backups \in {<<>>, <<originalContent>>}

\* A section of a file of three lines was replaced, and the backup holds
\* the three lines.
C15_Witness ==
  /\ editPc = "done"
  /\ editOptions.replace
  /\ editOptions.section # <<>>
  /\ Len(originalContent) = 3
  /\ target.lines # originalContent
  /\ backups = <<originalContent>>

\* ------------------------------------- claims on the settings of a call

\* The CLI option when given, otherwise the stored value, otherwise dflt.
Precedence(key, dflt) ==
  IF cliOptions[key] # "" THEN cliOptions[key]
  ELSE IF configFile[key] # "" THEN configFile[key]
  ELSE dflt

\* C16 (as claimed): for provider, model, API key and base URL the value a
\* generation call uses is the CLI option when given, otherwise the value
\* of the config file, otherwise the default (openai, gpt-4o); for the API
\* key whatever the environment holds, and for every call of the process.
C16_CliThenFileThenDefault ==
  \A c \in 1..Len(modelUses) :
    /\ modelUses[c].provider = Precedence("provider", "openai")
    /\ modelUses[c].model = Precedence("model", "gpt-4o")
    /\ Precedence("apiKey", "") # "" =>
         modelUses[c].apiKey = Precedence("apiKey", "")
    /\ Precedence("baseUrl", "") # "" =>
         modelUses[c].baseUrl = Precedence("baseUrl", "")

\* The part of C16 that the code keeps: provider and model of a supported
\* provider, and the API key when the environment holds none.
SettingsKept ==
  \A c \in 1..Len(modelUses) :
    Precedence("provider", "openai") \in {"openai", "anthropic", "ollama"} =>
      /\ modelUses[c].provider = Precedence("provider", "openai")
      /\ modelUses[c].model = Precedence("model", "gpt-4o")
      /\ (modelUses[c].provider = "openai" /\ processEnv.OPENAI_API_KEY # "env-key"
            /\ Precedence("apiKey", "") # "") =>
           modelUses[c].apiKey = Precedence("apiKey", "")
      /\ modelUses[c].provider = "ollama" =>
           modelUses[c].baseUrl = Precedence("baseUrl", "http://localhost:11434")

\* ------------------------------------------- claims on the token estimate

\* A text of n characters.
TextOfLen(n) == [i \in 1..n |-> "a"]

\* C17: estimateTokens(text) is ceil(length / 4), the least e with
\* 4 * e >= length, and 0 for the empty text; so a single document takes
\* the single-call path exactly when its length is at most MAX_CHUNK_SIZE
\* and the chunked path exactly when it is longer.
C17_EstimateIsCeilOfQuarter ==
  /\ \A n \in 0..(2 * MAX_CHUNK_SIZE + MaxLen) :
       LET e == estimateTokens(TextOfLen(n))
       IN  4 * e >= n /\ 4 * (e - 1) < n /\ (n = 0 => e = 0)
  /\ (SingleDoc /\ calls # <<>>) =>
       /\ (Len(content) <= MAX_CHUNK_SIZE) <=> (calls[1].kind = "single")
       /\ (Len(content) <= MAX_CHUNK_SIZE) <=> (splitCalls = 0)
       /\ (Len(content) > MAX_CHUNK_SIZE) <=> (splitCalls = 1)

\* A document one character longer than MAX_CHUNK_SIZE went the chunked
\* way, and one of exactly MAX_CHUNK_SIZE characters would not.
C17_Witness ==
  /\ SingleDoc
  /\ Len(content) = MAX_CHUNK_SIZE + 1
  /\ splitCalls = 1
  /\ pc = "done"
  /\ exitCode = 0

\* A document of exactly MAX_CHUNK_SIZE characters was summarized by one call.
AtBudgetSingleCall ==
  /\ SingleDoc
  /\ Len(content) = MAX_CHUNK_SIZE
  /\ splitCalls = 0
  /\ pc = "done"
  /\ exitCode = 0
  /\ Len(calls) = 1

\* ------------------------------------------ claims on oversized sentences

\* The members of a sequence, as a set.
Members(seq) == {seq[i] : i \in 1..Len(seq)}

\* The sentences of the text, as splitIntoChunks cuts them.
SentencesOf(t) == split(t, "sentence")

\* Sentence i of the text was split by splitLongSentence: the pieces it
\* gives are among the chunks.
SplitByFallback(i) ==
  Members(filterNonEmpty(splitLongSentence(SentencesOf(text)[i], maxChunkSize)))
    \subseteq Members(chunks)

\* C18 (as claimed): every sentence longer than maxChunkSize is split by
\* splitLongSentence, at whatever position it occurs in the text.
C18_OversizedSentenceAlwaysSplit ==
  splitPc = "done" =>
    \A i \in 1..Len(SentencesOf(text)) :
      Len(SentencesOf(text)[i]) > maxChunkSize => SplitByFallback(i)

\* The part of C18 that the code keeps: an oversized sentence met while the
\* current chunk is empty, as the first sentence is.
OversizedFirstSentenceSplit ==
  (splitPc = "done" /\ SentencesOf(text) # <<>>
     /\ Len(SentencesOf(text)[1]) > maxChunkSize) => SplitByFallback(1)

\* --------------------------------- claims on failures of a multi-file run

\* The summaries of the files that succeeded, in order.
FileSummaries == [j \in 1..Len(summaries) |-> summaries[j].summary]

\* The cross-file synthesis call was issued and failed.
SynthesisFailed ==
  \E j \in CombinedCalls : calls[j].status = "failed"

\* C19 (as claimed): in a multi-file run no generation failure is fatal,
\* be it of a per-file call or of the cross-file synthesis call: the run
\* ends with exit status 0, with the completed-count line printed, and with
\* the summaries of the files that succeeded emitted (the combined summary,
\* when its call returned).
C19_NoGenerationFailureIsFatal ==
  (mode = "multi" /\ pc = "done") =>
    /\ exitCode = 0
    /\ CompletedLine \in LinesOf(stdout)
    /\ BlockTexts(Delivered, 1) =
         (IF CombinedCalls # {} /\ ~SynthesisFailed
          THEN <<calls[Len(calls)].text>> ELSE FileSummaries)

\* The part of C19 that the code keeps: failures of per-file calls.
PerFileFailuresNotFatal ==
  (mode = "multi" /\ pc = "done" /\ ~SynthesisFailed) =>
    /\ exitCode = 0
    /\ CompletedLine \in LinesOf(stdout)
    /\ BlockTexts(Delivered, 1) =
         (IF CombinedCalls # {} THEN <<calls[Len(calls)].text>> ELSE FileSummaries)

\* Per-file calls failed in a run that ended normally.
PerFileFailureSurvived ==
  /\ mode = "multi"
  /\ pc = "done"
  /\ exitCode = 0
  /\ \E j \in 1..Len(calls) : calls[j].status = "failed"
  /\ Len(summaries) >= 1

\* --------------------------------------------- claims on the chunks' form

\* C20 (as claimed): every chunk splitIntoChunks returns is non-empty and
\* has no leading and no trailing whitespace, on the sentence path and on
\* the paragraph and word paths.
C20_ChunksTrimmedNonEmpty ==
  splitPc = "done" =>
    \A i \in 1..Len(chunks) :
      /\ chunks[i] # <<>>
      /\ chunks[i][1] \notin WhiteSpace
      /\ chunks[i][Len(chunks[i])] \notin WhiteSpace

\* Every chunk returned is non-empty.
ChunksNonEmpty ==
  splitPc = "done" => \A i \in 1..Len(chunks) : chunks[i] # <<>>

\* ------------------------------------------------- claims on the delays

\* The waits between files that followed file i.
FileDelaysAfter(i) ==
  {d \in 1..Len(delays) : delays[d].ms = 1000 /\ delays[d].file = i}

\* C21 (as claimed): in a multi-file run over N files, once the loop is
\* over, one fixed delay followed file i for every i < N, whether file i
\* was summarized, failed or was skipped, and none followed file N.
C21_DelayBetweenFiles ==
  (mode = "multi" /\ fileIdx > Len(files)) =>
    \A i \in 1..Len(files) :
      Cardinality(FileDelaysAfter(i)) = (IF i < Len(files) THEN 1 ELSE 0)

\* The part of C21 that the code keeps: a delay follows file i exactly when
\* file i was summarized and is not the last.
DelayAfterSummarizedFile ==
  (mode = "multi" /\ fileIdx > Len(files)) =>
    \A i \in 1..Len(files) :
      Cardinality(FileDelaysAfter(i)) =
        (IF i < Len(files) /\ ~FileSkipped(i) /\ ~FileFailed(i) THEN 1 ELSE 0)

\* ------------------------------------------ claims on the partial results
Extends(old, new) ==
  /\ Len(new) >= Len(old)
  /\ \A k \in 1..Len(old) : new[k] = old[k]

RECURSIVE IsSubsequence(_, _)
IsSubsequence(s, t) ==
  IF s = <<>> THEN TRUE
  ELSE IF t = <<>> THEN FALSE
  ELSE IF Head(s) = Head(t) THEN IsSubsequence(Tail(s), Tail(t))
  ELSE IsSubsequence(s, Tail(t))

\* Entry j of the chunk list is the labelled result of the call made for
\* chunk j of the document in hand.
ChunkListInChunkOrder ==
  pc \in {"askChunk", "askFinal"} =>
    \A j \in 1..Len(chunkSummaries) :
      /\ chunkSummaries[j].part = j
      /\ \E k \in 1..Len(calls) :
           /\ calls[k].kind = "chunk" /\ calls[k].file = fileIdx
           /\ calls[k].part = j /\ calls[k].content = docChunks[j]
           /\ calls[k].status = "ok"
           /\ chunkSummaries[j].summary = calls[k].text

FileListInFileOrder ==
  /\ Len(summaries) = Len(processedFiles)
  /\ \A k \in 1..Len(summaries) : summaries[k].file = processedFiles[k]
  /\ IsSubsequence(processedFiles, files)

PartialResultsOnlyAppended ==
  /\ Extends(summaries, summaries')
  /\ Extends(processedFiles, processedFiles')
  /\ \/ Extends(chunkSummaries, chunkSummaries')
     \/ chunkSummaries' = <<>> /\ pc' = "askChunk" /\ pc # "askChunk"

\* C22: during chunked and multi-file runs the lists of partial results only
\* grow by appending (the chunk list starts anew, empty, with each chunked
\* document); entry j of the chunk list is the summary of chunk j; the
\* per-file list is a subsequence of the resolved files, in their order, as
\* long as the list of the files counted as processed.
C22_PartialResultsAppendOnly ==
  /\ [](ChunkListInChunkOrder /\ FileListInFileOrder)
  /\ [][PartialResultsOnlyAppended]_vars

\* Two files summarized out of three, the last of them in two chunks or more.
C22_Witness ==
  /\ mode = "multi" /\ Len(files) = 3 /\ Len(summaries) = 2
  /\ Len(chunkSummaries) >= 2
  /\ processedFiles # SubSeq(files, 1, 2)

\* ------------------------------------------------ claims on the edit command
SectionNotFound ==
  /\ editOptions.section # <<>>
  /\ ~extractSection(originalContent, editOptions.section).found

EditSucceeded ==
  /\ editPc = "done" /\ editExit = 0
  /\ editCalls # <<>> /\ editCalls[1].status = "ok"

\* The edited text reached the place a whole-file edit puts it.
DeliveredAsWholeFile ==
  LET editedContent == Whole(editCalls[1].text)
  IN  IF editOptions.replace
      THEN target.lines = <<editedContent>> /\ backups = <<originalContent>>
      ELSE IF editOptions.output
      THEN editOutFile = <<<<>>, <<>>>> \o EditBlockTitled("## Edited version", editedContent)
      ELSE \E k \in 1..Len(editStdout) : editStdout[k] = editedContent

\* C23 (as claimed): an edit with --section naming no header of the file
\* sends the whole file to the generator and delivers the result as a
\* whole-file edit does: written to the file under --replace, appended under
\* -o, displayed otherwise.
C23_MissingSectionEditsWholeFile ==
  (SectionNotFound /\ EditSucceeded) =>
    /\ editCalls[1].content = originalContent
    /\ DeliveredAsWholeFile

\* The part of C23 that the code keeps: the whole file is what is sent.
MissingSectionSendsWholeFile ==
  (SectionNotFound /\ editCalls # <<>>) => editCalls[1].content = originalContent

\* What the code does with the result: nothing is written or displayed.
MissingSectionResultDropped ==
  (SectionNotFound /\ EditSucceeded) =>
    /\ target.lines = originalContent /\ backups = <<>> /\ editOutFile = <<>>
    /\ \A k \in 1..Len(editStdout) : editStdout[k] # Whole(editCalls[1].text)

\* The 0-based indices of the header lines whose title contains the name or
\* is contained in it, letter case apart.
MatchingHeaders(lines, name) ==
  {i \in 0..(Len(lines) - 1) :
     LET m == headerMatch(lines[i + 1])
         title == toLowerCaseText(m.title)
         wanted == toLowerCaseText(name)
     IN  m.level > 0 /\ (includes(title, wanted) \/ includes(wanted, title))}

\* The 0-based indices after start of the header lines of a level no deeper
\* than that of the header at start.
ClosingHeaders(lines, start) ==
  {i \in (start + 1)..(Len(lines) - 1) :
     headerMatch(lines[i + 1]).level \in 1..headerMatch(lines[start + 1]).level}

Least(S) == CHOOSE x \in S : \A y \in S : x <= y

\* C24: extractSection returns null exactly when no header's title contains
\* the name or is contained in it (case-insensitively); otherwise, for the
\* first such header at index start, it returns the lines of [start, end)
\* where end is the index of the first later header of the same or a higher
\* level, or the line count; 0 <= start < end <= line count, and every
\* header strictly inside the range is of a deeper level.
C24_ExtractSection ==
  (editPc # "edit" /\ originalContent # <<>> /\ editOptions.section # <<>>) =>
    LET lines == originalContent
        r == extractSection(lines, editOptions.section)
        M == MatchingHeaders(lines, editOptions.section)
    IN  /\ r.found <=> M # {}
        /\ r.found =>
             LET C == ClosingHeaders(lines, r.start)
             IN  /\ r.start = Least(M)
                 /\ r.end = (IF C = {} THEN Len(lines) ELSE Least(C))
                 /\ 0 <= r.start /\ r.start < r.end /\ r.end <= Len(lines)
                 /\ r.content = [k \in 1..(r.end - r.start) |-> lines[r.start + k]]
                 /\ \A i \in (r.start + 1)..(r.end - 1) :
                      headerMatch(lines[i + 1]).level > 0 =>
                        headerMatch(lines[i + 1]).level
                          > headerMatch(lines[r.start + 1]).level

\* "# a", "## ab", " # B" with section "a": the subsection is inside the
\* range and the header of the same level ends it.
C24_Witness ==
  /\ editPc # "edit"
  /\ originalContent = <<<<"#", " ", "a">>, <<"#", "#", " ", "a", "b">>, <<" ", "#", " ", "B">>>>
  /\ editOptions.section = <<"a">>
  /\ extractSection(originalContent, editOptions.section)
       = [found |-> TRUE, content |-> SubSeq(originalContent, 1, 2), start |-> 0, end |-> 2]

\* C25: after edit --section S --replace succeeded on a file that has the
\* section, the file is the original lines before the section's start, the
\* edited text, and the original lines from the section's end onward: every
\* line outside [start, end) is kept, in its order.
C25_SectionReplaceKeepsOtherLines ==
  (/\ EditSucceeded /\ editOptions.replace
   /\ editOptions.section # <<>>
   /\ MatchingHeaders(originalContent, editOptions.section) # {}) =>
    LET lines == originalContent
        start == Least(MatchingHeaders(lines, editOptions.section))
        C == ClosingHeaders(lines, start)
        end == IF C = {} THEN Len(lines) ELSE Least(C)
        removed == end - start
    IN  /\ Len(target.lines) = Len(lines) - removed + 1
        /\ \A i \in 1..start : target.lines[i] = lines[i]
        /\ target.lines[start + 1] = Whole(editCalls[1].text)
        /\ \A i \in (end + 1)..Len(lines) : target.lines[i - removed + 1] = lines[i]

\* "t", "## ab", "# a" with section "a": the section is the middle line, a
\* line before it and another section after it are kept.
C25_Witness ==
  /\ EditSucceeded /\ editOptions.replace
  /\ editOptions.section = <<"a">>
  /\ originalContent = <<<<"t">>, <<"#", "#", " ", "a", "b">>, <<"#", " ", "a">>>>
  /\ target.lines = <<<<"t">>, Whole(editCalls[1].text), <<"#", " ", "a">>>>

\* The action edit works with: --action, or "improve".
ChosenAction == IF editOptions.action = "" THEN "improve" ELSE editOptions.action

NothingGeneratedOrWritten ==
  /\ editExit > 0
  /\ editCalls = <<>>
  /\ backups = <<>> /\ editOutFile = <<>>
  /\ target.exists => (originalContent # <<>> => target.lines = originalContent)

\* C26 (as claimed): an edit of a file that does not exist, or with an action
\* outside the menu (simplify, clarify, shorten, expand, improve, rewrite,
\* translate, fix), exits non-zero without a generation call and without
\* creating, backing up or modifying a file.
C26_BadInputRejected ==
  (editPc = "done" /\ (~target.exists \/ ChosenAction \notin EDIT_ACTIONS)) =>
    NothingGeneratedOrWritten

\* The part of C26 that the code keeps: a missing file, or an action that is
\* no property of the menu object at all, is rejected.
MissingFileOrUnknownPropertyRejected ==
  (editPc = "done" /\ (~target.exists \/ ~knownAction(ChosenAction))) =>
    NothingGeneratedOrWritten

\* An action outside the menu went through to a written file.
InheritedPropertyAccepted ==
  /\ editPc = "done" /\ editExit = 0 /\ ChosenAction = "toString"
  /\ editCalls # <<>> /\ editCalls[1].status = "ok"
  /\ editOptions.replace /\ editOptions.section = <<>>
  /\ target.lines = <<Whole(editCalls[1].text)>>

\* ----------------------------------------------- insert: constants, helpers

\* Most lines a file of the insert command holds.
MaxInsLines == 4

\* Most lines a generated text holds.
MaxGenLines == 2

\* The lines a file is made of here, each kept whole.
InsertLines ==
  {"<!-- AI insert here -->", "<!--ai-insert START-->", "<!-- AI insert end -->",
   "<!-- /AI -->", "<!-- AI:insert -->", "text"}

\* line.match(/<!--\s*AI\s*-?\s*insert\s+(here|start)\s*-->/i), over the
\* lines above.
isStartMarker(line) ==
  line \in {"<!-- AI insert here -->", "<!--ai-insert START-->"}

\* line.match(/<!--\s*AI\s*insert\s+end\s*-->/i) ||
\* line.match(/<!--\s*\/AI\s*-->/i), over the lines above.
isEndMarker(line) == line \in {"<!-- AI insert end -->", "<!-- /AI -->"}

\* The files of at most n lines, as content.split('\n') gives them.
InsertFilesOf(n) == UNION {[1..k -> InsertLines] : k \in 1..n}

\* The inner loop of findInsertBlocks from line j (0-based): the index of
\* the first end marker, or -1.
RECURSIVE findEnd(_, _)
findEnd(lines, j) ==
  IF j >= Len(lines) THEN -1
  ELSE IF isEndMarker(lines[j + 1]) THEN j
  ELSE findEnd(lines, j + 1)

\* lines.slice(Math.max(0, startLine - 10), startLine)
contextBefore(lines, startLine) ==
  slice(lines, IF startLine > 10 THEN startLine - 10 ELSE 0, startLine)

\* lines.slice(endLine + 1, Math.min(lines.length, endLine + 11))
contextAfter(lines, endLine) ==
  slice(lines, endLine + 1,
        IF Len(lines) < endLine + 11 THEN Len(lines) ELSE endLine + 11)

\* The outer loop of findInsertBlocks from line i (0-based).
RECURSIVE findInsertBlocksFrom(_, _)
findInsertBlocksFrom(lines, i) ==
  IF i >= Len(lines) THEN <<>>
  ELSE IF isStartMarker(lines[i + 1]) /\ findEnd(lines, i + 1) # -1
  THEN LET endLine == findEnd(lines, i + 1)
       IN  <<[startLine |-> i, endLine |-> endLine,
              contextBefore |-> contextBefore(lines, i),
              contextAfter |-> contextAfter(lines, endLine),
              originalContent |-> slice(lines, i, endLine + 1)]>>
             \o findInsertBlocksFrom(lines, endLine + 1)
  ELSE findInsertBlocksFrom(lines, i + 1)

findInsertBlocks(lines) == findInsertBlocksFrom(lines, 0)

\* The texts the k-th generation call of an insert run may return, trimmed,
\* as lines.
InsertTexts(k) ==
  {[j \in 1..n |-> "gen" \o ToString(k) \o "." \o ToString(j)] : n \in 1..MaxGenLines}

\* A slip of afterLines: the block's end marker is taken for a line after it.
afterLines_FromEnd(lines, block) == slice(lines, block.endLine, Len(lines))

\* lines.slice(block.endLine + 1)
afterLines(lines, block) == slice(lines, block.endLine + 1, Len(lines))

\* [...beforeLines, ...replacement, ...afterLines].join('\n'), split again.
replaceBlock(lines, block, generatedContent) ==
  slice(lines, 0, block.startLine)
    \o <<"<!-- AI:insert -->">> \o generatedContent \o <<"<!-- /AI -->">>
    \o afterLines(lines, block)

\* The prompt of generateInsertContent for a block.
InsertCall(insertBlocks, i) ==
  [block |-> i, contextBefore |-> insertBlocks[i].contextBefore,
   contextAfter |-> insertBlocks[i].contextAfter, status |-> "pending", text |-> <<>>]

\* ---------------------------------------------------- insert: the actions

InitInsert ==
  /\ SplitIdle
  /\ SumIdle
  /\ EditIdle
  /\ LlmIdle
  /\ AskIdle
  /\ CfgIdle
  /\ insTarget \in {[exists |-> FALSE, lines |-> <<>>]}
                    \cup {[exists |-> TRUE, lines |-> ls] : ls \in InsertFilesOf(MaxInsLines)}
  /\ insOptions \in [preview : BOOLEAN, output : BOOLEAN]
  /\ insBlocks = <<>>
  /\ insIdx = 0
  /\ updatedContent = <<>>
  /\ insCalls = <<>>
  /\ insBackup = <<>>
  /\ insOutFile = <<>>
  /\ insStdout = <<>>
  /\ insExit = -1
  /\ insPc = "insert"

\* A slip of InsertCatch: what was generated so far is saved on a failure.
InsertCatch_SavePartial ==
  /\ insStdout' = Append(insStdout, "Error")
  /\ insExit' = 1
  /\ insPc' = "done"
  /\ insTarget' = [insTarget EXCEPT !.lines = updatedContent]
  /\ UNCHANGED <<insBackup, insOutFile>>

\* console.error and process.exit(1): the catch of insert.
InsertCatch ==
  /\ insStdout' = Append(insStdout, "Error")
  /\ insExit' = 1
  /\ insPc' = "done"
  /\ UNCHANGED <<insTarget, insBackup, insOutFile>>

\* insert up to its first generation call: the file is checked and read, the
\* blocks are found; a preview run lists them and ends.
Insert ==
  /\ insPc = "insert"
  /\ IF ~insTarget.exists
     THEN /\ insStdout' = Append(insStdout, "File not found")
          /\ insExit' = 1
          /\ insPc' = "done"
          /\ UNCHANGED <<insTarget, insBlocks, insIdx, updatedContent, insCalls,
                         insBackup, insOutFile>>
     ELSE \E readOk \in BOOLEAN :
       IF ~readOk
       THEN /\ InsertCatch
            /\ UNCHANGED <<insBlocks, insIdx, updatedContent, insCalls>>
       ELSE LET insertBlocks == findInsertBlocks(insTarget.lines)
                n == Len(insertBlocks)
            IN  /\ insBlocks' = insertBlocks
                /\ IF n = 0
                   THEN /\ insStdout' = Append(insStdout, "No AI insert blocks found in the file.")
                        /\ insExit' = 0
                        /\ insPc' = "done"
                        /\ UNCHANGED <<insIdx, updatedContent, insCalls>>
                   ELSE IF insOptions.preview
                   THEN /\ insStdout' = insStdout
                             \o <<"Found " \o ToString(n) \o " insert block(s) to process...">>
                             \o [k \in 1..n |-> "Processing insert block "
                                                  \o ToString(n + 1 - k) \o "/" \o ToString(n)]
                             \o <<"Preview mode">>
                        /\ insExit' = 0
                        /\ insPc' = "done"
                        /\ updatedContent' = insTarget.lines
                        /\ insIdx' = 0
                        /\ UNCHANGED insCalls
                   ELSE /\ insStdout' = insStdout
                             \o <<"Found " \o ToString(n) \o " insert block(s) to process...",
                                  "Processing insert block " \o ToString(n) \o "/" \o ToString(n)>>
                        /\ updatedContent' = insTarget.lines
                        /\ insIdx' = n
                        /\ insCalls' = <<InsertCall(insertBlocks, n)>>
                        /\ insPc' = "generate"
                        /\ UNCHANGED insExit
                /\ UNCHANGED <<insTarget, insBackup, insOutFile>>
  /\ UNCHANGED <<splitVars, sumVars, editVars, llmVars, askVars, cfgVars, insOptions>>

\* The generation call of a block returns or throws: the block is replaced
\* and the next one is taken up, or, after the first block, the result is
\* saved.
InsertReturn ==
  /\ insPc = "generate"
  /\ \E ok \in BOOLEAN, writeOk \in BOOLEAN, generatedContent \in InsertTexts(Len(insCalls)) :
       IF ~ok
       THEN /\ insCalls' = [insCalls EXCEPT ![Len(insCalls)].status = "failed"]
            /\ InsertCatch
            /\ UNCHANGED <<insIdx, updatedContent>>
       ELSE LET returned == [insCalls EXCEPT ![Len(insCalls)] =
                               [@ EXCEPT !.status = "ok", !.text = generatedContent]]
                updated == replaceBlock(updatedContent, insBlocks[insIdx], generatedContent)
            IN  /\ updatedContent' = updated
                /\ insIdx' = insIdx - 1
                /\ IF insIdx > 1
                   THEN /\ insCalls' = Append(returned, InsertCall(insBlocks, insIdx - 1))
                        /\ insStdout' = insStdout
                             \o <<"Generated content for block " \o ToString(insIdx),
                                  "Processing insert block " \o ToString(insIdx - 1)
                                    \o "/" \o ToString(Len(insBlocks))>>
                        /\ UNCHANGED <<insTarget, insBackup, insOutFile, insExit, insPc>>
                   ELSE /\ insCalls' = returned
                        /\ IF ~writeOk
                           THEN InsertCatch
                           ELSE /\ IF insOptions.output
                                   THEN /\ insOutFile' = updated
                                        /\ UNCHANGED <<insTarget, insBackup>>
                                   ELSE /\ insBackup' = insTarget.lines
                                        /\ insTarget' = [insTarget EXCEPT !.lines = updated]
                                        /\ UNCHANGED insOutFile
                                /\ insStdout' = insStdout
                                     \o <<"Generated content for block 1", "Saved",
                                          "Successfully processed "
                                            \o ToString(Len(insBlocks)) \o " insert block(s)!">>
                                /\ insExit' = 0
                                /\ insPc' = "done"
  /\ UNCHANGED <<splitVars, sumVars, editVars, llmVars, askVars, cfgVars, insOptions, insBlocks>>

NextInsert ==
  \/ Insert
  \/ InsertReturn

SpecInsert == InitInsert /\ [][NextInsert]_vars

\* ---------------------------------------------- claims on the insert command
InsertSaved ==
  insPc = "done" /\ insExit = 0 /\ insBlocks # <<>> /\ ~insOptions.preview

\* The file as insert read it, and what it saved.
InsertOriginal == IF insOptions.output THEN insTarget.lines ELSE insBackup
InsertResult == IF insOptions.output THEN insOutFile ELSE insTarget.lines

\* The blocks are start-marker lines through the first end-marker line after
\* each, disjoint and ascending, and no complete block is left out.
BlocksWellFormed(lines, blocks) ==
  /\ \A b \in 1..Len(blocks) :
       /\ 0 <= blocks[b].startLine /\ blocks[b].startLine < blocks[b].endLine
       /\ blocks[b].endLine < Len(lines)
       /\ isStartMarker(lines[blocks[b].startLine + 1])
       /\ isEndMarker(lines[blocks[b].endLine + 1])
       /\ \A j \in (blocks[b].startLine + 1)..(blocks[b].endLine - 1) :
            ~isEndMarker(lines[j + 1])
       /\ b < Len(blocks) => blocks[b].endLine < blocks[b + 1].startLine
  /\ \A i \in 0..(Len(lines) - 1) :
       (/\ isStartMarker(lines[i + 1])
        /\ \E j \in (i + 1)..(Len(lines) - 1) : isEndMarker(lines[j + 1]))
       => \E b \in 1..Len(blocks) : blocks[b].startLine <= i /\ i <= blocks[b].endLine

\* The text generated for block b.
GeneratedFor(b) ==
  insCalls[CHOOSE k \in 1..Len(insCalls) : insCalls[k].block = b].text

\* The lines from line i (1-based) on, with block b and the blocks after it
\* replaced by marker, generated text, marker.
RECURSIVE Spliced(_, _, _)
Spliced(lines, i, b) ==
  IF i > Len(lines) THEN <<>>
  ELSE IF b <= Len(insBlocks) /\ insBlocks[b].startLine = i - 1
  THEN <<"<!-- AI:insert -->">> \o GeneratedFor(b) \o <<"<!-- /AI -->">>
         \o Spliced(lines, insBlocks[b].endLine + 2, b + 1)
  ELSE <<lines[i]>> \o Spliced(lines, i + 1, b)

\* While blocks are still to be processed, the lines at their recorded
\* indices are those blocks.
PendingBlocksInPlace ==
  insPc = "generate" =>
    \A b \in 1..insIdx :
      slice(updatedContent, insBlocks[b].startLine, insBlocks[b].endLine + 1)
        = insBlocks[b].originalContent

\* C27: insert replaces every complete insert block (a start-marker line
\* through the first end-marker line after it) by `<!-- AI:insert -->`, the
\* generated text and `<!-- /AI -->`, and keeps every other line, in order,
\* whatever the number of blocks and of lines generated; the blocks found
\* are disjoint and ascending, and processing them from last to first keeps
\* the recorded indices of the blocks still to be processed valid.
C27_InsertReplacesBlocks ==
  /\ PendingBlocksInPlace
  /\ insBlocks # <<>> => BlocksWellFormed(IF InsertSaved THEN InsertOriginal
                                          ELSE insTarget.lines, insBlocks)
  /\ InsertSaved => InsertResult = Spliced(InsertOriginal, 1, 1)

\* Two blocks replaced, two lines generated for the first of them.
C27_Witness ==
  /\ InsertSaved /\ Len(insBlocks) = 2
  /\ Len(GeneratedFor(1)) = 2 /\ Len(GeneratedFor(2)) = 1
  /\ Len(InsertResult) = 7

AllBlocksGenerated(cs) ==
  /\ Len(cs) = Len(insBlocks)
  /\ \A k \in 1..Len(cs) : cs[k].status = "ok"

InsertWrites ==
  insTarget' # insTarget \/ insBackup' # insBackup \/ insOutFile' # insOutFile

\* C28: insert writes no file until every block has been generated: when a
\* generation call fails, and in preview mode (which issues no call), the
\* target file is left as it was and neither a backup nor the -o file is
\* made.
C28_InsertWritesLast ==
  /\ []((insExit > 0 \/ insOptions.preview \/ insPc = "generate") =>
          (insBackup = <<>> /\ insOutFile = <<>>))
  /\ [](insOptions.preview => insCalls = <<>>)
  /\ [][InsertWrites =>
          (/\ ~insOptions.preview /\ insBlocks # <<>>
           /\ AllBlocksGenerated(insCalls') /\ insExit' = 0)]_vars

\* The second of two generation calls failed after the first had changed
\* the content in memory: nothing was saved.
C28_Witness ==
  /\ insPc = "done" /\ insExit = 1 /\ Len(insCalls) = 2
  /\ insCalls[1].status = "ok" /\ insCalls[2].status = "failed"
  /\ updatedContent # insTarget.lines
  /\ insBackup = <<>> /\ insOutFile = <<>>

\* ------------------------------------------------------------------- ask

\* Most deltas a streamed answer arrives in.
MaxDeltas == 3

\* The questions asked here.
Questions == {"what?", "why?"}

\* const useStreaming = noStream ? false : (stream !== false)
useStreaming(opts) == IF opts.noStream THEN FALSE ELSE opts.stream # "false"

\* `<!-- AI:answer -->\n${answer}\n<!-- /AI -->\n` as lines.
AnswerBlock(answer) == <<"<!-- AI:answer -->">> \o answer \o <<"<!-- /AI -->">>

InitAsk ==
  /\ SplitIdle
  /\ SumIdle
  /\ EditIdle
  /\ LlmIdle
  /\ InsIdle
  /\ CfgIdle
  /\ question \in Questions
  /\ askOptions \in [stream : {"undefined", "true", "false"}, noStream : BOOLEAN,
                     output : BOOLEAN]
  /\ askStdout = <<>>
  /\ askOutFile = <<>>
  /\ fullText = <<>>
  /\ askStderr = <<>>
  /\ askExit = -1
  /\ askPc = "ask"

\* console.error and process.exit(1): the catch of ask.
AskCatch ==
  /\ askStderr' = Append(askStderr, "Error")
  /\ askExit' = 1
  /\ askPc' = "done"

\* The end of ask once the block is made: the append to the -o file.
AskOutput(answer, appendOk) ==
  IF ~askOptions.output
  THEN /\ askExit' = 0
       /\ askPc' = "done"
       /\ UNCHANGED <<askOutFile, askStderr>>
  ELSE IF ~appendOk
  THEN /\ AskCatch
       /\ UNCHANGED askOutFile
  ELSE /\ askOutFile' = askOutFile \o <<"", "", "## Question", question, "">>
                          \o AnswerBlock(answer)
       /\ askExit' = 0
       /\ askPc' = "done"
       /\ UNCHANGED askStderr

\* ask up to the first await: the streaming path prints the question and
\* enters askLLMStream, which resolves the model and writes the start marker;
\* the other path enters askLLM.
Ask ==
  /\ askPc = "ask"
  /\ IF useStreaming(askOptions)
     THEN \E modelOk \in BOOLEAN :
            IF ~modelOk
            THEN /\ askStdout' = Append(askStdout, "Question: " \o question)
                 /\ AskCatch
            ELSE /\ askStdout' = askStdout \o <<"Question: " \o question, "<!-- AI:answer -->">>
                 /\ askPc' = "stream"
                 /\ UNCHANGED <<askStderr, askExit>>
     ELSE /\ askPc' = "askLLM"
          /\ UNCHANGED <<askStdout, askStderr, askExit>>
  /\ UNCHANGED <<splitVars, sumVars, editVars, llmVars, insVars, cfgVars, question, askOptions,
                 askOutFile, fullText>>

\* One turn of the for await loops of askLLMStream: a delta is written and
\* added to fullText.
StreamDelta ==
  /\ askPc = "stream"
  /\ Len(fullText) < MaxDeltas
  /\ LET delta == "delta" \o ToString(Len(fullText) + 1)
     IN  /\ askStdout' = Append(askStdout, delta)
         /\ fullText' = Append(fullText, delta)
  /\ UNCHANGED <<splitVars, sumVars, editVars, llmVars, insVars, cfgVars, question, askOptions,
                 askOutFile, askStderr, askExit, askPc>>

\* The stream ends: exhausted, and askLLMStream writes the end marker and
\* returns to ask, or broken by an error, which ask catches.
StreamEnd ==
  /\ askPc = "stream"
  /\ \E ok \in BOOLEAN, appendOk \in BOOLEAN :
       IF ~ok
       THEN /\ AskCatch
            /\ UNCHANGED <<askStdout, askOutFile>>
       ELSE /\ askStdout' = askStdout \o <<"", "<!-- /AI -->", "">>
                 \o (IF askOptions.output /\ appendOk THEN <<"Answer appended">> ELSE <<>>)
            /\ AskOutput(fullText, appendOk)
  /\ UNCHANGED <<splitVars, sumVars, editVars, llmVars, insVars, cfgVars, question, askOptions,
                 fullText>>

\* askLLM returns or throws on the path without streaming.
AskReturn ==
  /\ askPc = "askLLM"
  /\ \E ok \in BOOLEAN, appendOk \in BOOLEAN :
       IF ~ok
       THEN /\ AskCatch
            /\ UNCHANGED <<askStdout, askOutFile>>
       ELSE /\ askStdout' = askStdout \o AnswerBlock(<<GenText(1)>>) \o <<"">>
                 \o (IF askOptions.output /\ appendOk THEN <<"Answer appended">> ELSE <<>>)
            /\ AskOutput(<<GenText(1)>>, appendOk)
  /\ UNCHANGED <<splitVars, sumVars, editVars, llmVars, insVars, cfgVars, question, askOptions,
                 fullText>>

NextAsk ==
  \/ Ask
  \/ StreamDelta
  \/ StreamEnd
  \/ AskReturn

SpecAsk == InitAsk /\ [][NextAsk]_vars

\* ------------------------------------------------- claims on the ask command
\* Every start marker on stdout has its end marker before the next start
\* marker or the end of the output.
MarkersClosed(out) ==
  \A i \in 1..Len(out) :
    out[i] = "<!-- AI:answer -->" =>
      \E j \in (i + 1)..Len(out) :
        /\ out[j] = "<!-- /AI -->"
        /\ \A k \in (i + 1)..(j - 1) : out[k] # "<!-- AI:answer -->"

\* C29 (as claimed): whenever ask has terminated, after a success or a
\* failure, streaming or not, every `<!-- AI:answer -->` it wrote to stdout
\* is followed by its `<!-- /AI -->`.
C29_AnswerMarkersClosed ==
  askPc = "done" => MarkersClosed(askStdout)

\* The part of C29 that the code keeps: the markers are closed unless the
\* stream broke off.
MarkersClosedUnlessStreamBroke ==
  (askPc = "done" /\ ~MarkersClosed(askStdout)) =>
    (useStreaming(askOptions) /\ askExit = 1)

\* A stream that broke after two deltas: the run is over, the block is open.
StreamBrokeOpenBlock ==
  /\ askPc = "done" /\ askExit = 1
  /\ askStdout = <<"Question: why?", "<!-- AI:answer -->", "delta1", "delta2">>

\* ----------------------------------------------------------------- config

\* Most config commands run one after the other.
MaxRuns == 3

\* The keys and values given on the command line here ("": not given).
ConfigKeys == {"provider", "model", "__proto__", ""}
ConfigValues == {"openai", "ollama", ""}

\* An object is the sequence of its own properties in insertion order; a
\* JSON text is the sequence of its members as written.

\* The index of the own property key of obj, or 0.
ownIndex(obj, key) ==
  IF \E i \in 1..Len(obj) : obj[i].k = key
  THEN CHOOSE i \in 1..Len(obj) : obj[i].k = key
  ELSE 0

\* config[key] read: an own property, else what Object.prototype has under
\* that name (an object or a function), else undefined.
getProperty(obj, key) ==
  IF ownIndex(obj, key) # 0 THEN obj[ownIndex(obj, key)].v
  ELSE IF key \in ObjectPrototypeKeys THEN "[inherited]"
  ELSE "undefined"

\* config[key] = value for a string value: "__proto__" is the accessor of
\* Object.prototype, whose setter ignores a value that is no object; any
\* other key becomes or stays an own property.
setProperty(obj, key, value) ==
  IF key = "__proto__" THEN obj
  ELSE IF ownIndex(obj, key) # 0
  THEN [obj EXCEPT ![ownIndex(obj, key)].v = value]
  ELSE Append(obj, [k |-> key, v |-> value])

\* JSON.stringify(newConfig, null, 2): the own properties as members.
stringify(obj) == [i \in 1..Len(obj) |-> <<obj[i].k, obj[i].v>>]

\* JSON.parse: the members become own properties, a repeated name keeping
\* its first place and its last value.
RECURSIVE parse(_)
parse(json) ==
  IF json = <<>> THEN <<>>
  ELSE LET rest == parse(SubSeq(json, 1, Len(json) - 1))
           member == json[Len(json)]
       IN  IF ownIndex(rest, member[1]) # 0
           THEN [rest EXCEPT ![ownIndex(rest, member[1])].v = member[2]]
           ELSE Append(rest, [k |-> member[1], v |-> member[2]])

\* loadConfig
loadConfig == IF rcFile.exists THEN parse(rcFile.json) ELSE <<>>

\* saveConfig
saveConfig(newConfig) == rcFile' = [exists |-> TRUE, json |-> stringify(newConfig)]

InitConfig ==
  /\ SplitIdle
  /\ SumIdle
  /\ EditIdle
  /\ LlmIdle
  /\ InsIdle
  /\ AskIdle
  /\ CfgIdle

\* console.error of the usage and process.exit(1)
ConfigUsage(message) ==
  /\ cfgStdout' = <<message>>
  /\ cfgExit' = 1
  /\ cfgReturned' = [value |-> "undefined", config |-> <<>>]
  /\ UNCHANGED rcFile

\* mdchat config set <key> <value>
ConfigSet ==
  /\ cfgRuns < MaxRuns
  /\ \E key \in ConfigKeys, value \in ConfigValues, saveOk \in BOOLEAN :
       /\ cfgArgs' = [cmd |-> "set", key |-> key, value |-> value]
       /\ IF key = "" \/ value = ""
          THEN ConfigUsage("Usage: mdchat config set <key> <value>")
          ELSE IF ~saveOk
          THEN ConfigUsage("Error")
          ELSE LET updated == setProperty(loadConfig, key, value)
               IN  /\ saveConfig(updated)
                   /\ cfgStdout' = <<"Set " \o key \o " = " \o value>>
                   /\ cfgReturned' = [value |-> "undefined", config |-> updated]
                   /\ cfgExit' = 0
  /\ cfgRuns' = cfgRuns + 1
  /\ UNCHANGED <<splitVars, sumVars, editVars, llmVars, insVars, askVars>>

\* mdchat config get <key>
ConfigGet ==
  /\ cfgRuns < MaxRuns
  /\ \E key \in ConfigKeys :
       /\ cfgArgs' = [cmd |-> "get", key |-> key, value |-> ""]
       /\ IF key = ""
          THEN ConfigUsage("Usage: mdchat config get <key>")
          ELSE LET found == getProperty(loadConfig, key)
               IN  /\ cfgStdout' = IF found # "undefined"
                                   THEN <<key \o " = " \o found>>
                                   ELSE <<"No value set for " \o key>>
                   /\ cfgReturned' = [value |-> found, config |-> <<>>]
                   /\ cfgExit' = 0
                   /\ UNCHANGED rcFile
  /\ cfgRuns' = cfgRuns + 1
  /\ UNCHANGED <<splitVars, sumVars, editVars, llmVars, insVars, askVars>>

\* mdchat config list
ConfigList ==
  /\ cfgRuns < MaxRuns
  /\ cfgArgs' = [cmd |-> "list", key |-> "", value |-> ""]
  /\ LET config == loadConfig
     IN  /\ cfgStdout' = <<"Current config:">>
              \o [i \in 1..Len(config) |-> "  " \o config[i].k \o " = " \o config[i].v]
         /\ cfgReturned' = [value |-> "undefined", config |-> config]
  /\ cfgExit' = 0
  /\ cfgRuns' = cfgRuns + 1
  /\ UNCHANGED <<splitVars, sumVars, editVars, llmVars, insVars, askVars, rcFile>>

\* mdchat config with any other word than setup, set, get or list
ConfigUnknown ==
  /\ cfgRuns < MaxRuns
  /\ cfgArgs' = [cmd |-> "unknown", key |-> "", value |-> ""]
  /\ ConfigUsage("Unknown config command. Use: setup | set | get | list")
  /\ cfgRuns' = cfgRuns + 1
  /\ UNCHANGED <<splitVars, sumVars, editVars, llmVars, insVars, askVars>>

NextConfig ==
  \/ ConfigSet
  \/ ConfigGet
  \/ ConfigList
  \/ ConfigUnknown

SpecConfig == InitConfig /\ [][NextConfig]_vars

\* ------------------------------------------------ claims on the config store
\* The keys a command line can name.
NamedKeys == ConfigKeys \ {""}

\* The command that ran last, and the one running in this step.
RanSet == cfgArgs.cmd = "set" /\ cfgExit = 0
RunsSet == cfgArgs'.cmd = "set" /\ cfgRuns' = cfgRuns + 1
RunsGet == cfgArgs'.cmd = "get" /\ cfgRuns' = cfgRuns + 1 /\ cfgArgs'.key # ""
RunsList == cfgArgs'.cmd = "list" /\ cfgRuns' = cfgRuns + 1

\* What the stored mapping has under each key, before and after the step.
Stored(key) == getProperty(loadConfig, key)
StoredAfter(key) ==
  getProperty(IF rcFile'.exists THEN parse(rcFile'.json) ELSE <<>>, key)

\* A get that follows a set of the same key returns the value set.
GetReturnsValueSet(keys) ==
  (RanSet /\ RunsGet /\ cfgArgs'.key = cfgArgs.key /\ cfgArgs.key \in keys)
    => cfgReturned'.value = cfgArgs.value

\* A set leaves every other key as it was; a get or a list leaves all.
OtherKeysKept ==
  /\ (RunsSet /\ cfgExit' = 0) =>
       \A k \in NamedKeys \ {cfgArgs'.key} : StoredAfter(k) = Stored(k)
  /\ (RunsGet \/ RunsList) => rcFile' = rcFile

\* A get returns what is stored, whichever command ran before it.
GetReturnsStored == RunsGet => cfgReturned'.value = Stored(cfgArgs'.key)

\* A set stores its value.
SetStores(keys) ==
  (RunsSet /\ cfgExit' = 0 /\ cfgArgs'.key \in keys)
    => StoredAfter(cfgArgs'.key) = cfgArgs'.value

ListReturnsAll == RunsList => cfgReturned'.config = loadConfig

MissingArgumentRejected ==
  (RunsSet /\ (cfgArgs'.key = "" \/ cfgArgs'.value = ""))
    => (cfgExit' > 0 /\ rcFile' = rcFile)

\* C30 (as claimed): after `config set k v` a following `config get k`
\* returns v and every other stored key keeps its value, for any sequence of
\* sets (the last set of a key wins); `config list` returns the whole
\* mapping; a set with a missing key or value exits non-zero and leaves the
\* mapping unchanged.
C30_ConfigStore ==
  [][/\ GetReturnsValueSet(NamedKeys)
     /\ SetStores(NamedKeys) /\ GetReturnsStored
     /\ OtherKeysKept
     /\ ListReturnsAll
     /\ MissingArgumentRejected]_vars

\* The part of C30 that the code keeps: the same for every key but
\* "__proto__".
ConfigStoreButProto ==
  [][/\ GetReturnsValueSet(NamedKeys \ {"__proto__"})
     /\ SetStores(NamedKeys \ {"__proto__"}) /\ GetReturnsStored
     /\ OtherKeysKept
     /\ ListReturnsAll
     /\ MissingArgumentRejected]_vars

\* `config set __proto__ openai` reported success and `config get __proto__`
\* then returned something else.
ProtoSetLost ==
  /\ cfgArgs = [cmd |-> "get", key |-> "__proto__", value |-> ""]
  /\ cfgRuns = 2 /\ cfgExit = 0
  /\ rcFile = [exists |-> TRUE, json |-> <<>>]
  /\ cfgReturned.value = "[inherited]"

====
